---- MODULE Spec2Model ----
(***************************************************************************)
(* A model of Halide's schedule-lowering pass, src/ScheduleFunctions.cpp.  *)
(*                                                                         *)
(* The state is the driver's (schedule_functions): the pipeline it was     *)
(* given (env, outputs, fused_groups), the skeleton statement s it is      *)
(* growing, the index of the next fused group and its position.  The IR    *)
(* is modelled as records, the mutators and visitors of the pass as        *)
(* recursive operators over them.                                          *)
(*                                                                         *)
(* Names.  The pass builds every identifier as a dotted string,            *)
(* "<func>.s<stage>.<var>", "<func>.s<stage>.fused.<var>", each possibly   *)
(* followed by ".loop_min", ".loop_max", ".loop_extent", ".min", ".max".   *)
(* A name is modelled by the record of its components                      *)
(*    [f, s, v, fu, sfx]                                                   *)
(* so that the string operations of the source (prefix up to the first     *)
(* dot, suffix after the last dot, the ".s<digits>" component, inserting   *)
(* ".fused.") are field reads and updates.  Function and variable names    *)
(* of the model hold no dot.                                               *)
(***************************************************************************)
EXTENDS Integers, Sequences, FiniteSets, TLC

VARIABLES
    env,           \* map<string, Function>: the pipeline and its schedules
    outputs,       \* the names of the output functions
    fused_groups,  \* vector<vector<string>>, in realization order
    s,             \* the skeleton statement of schedule_functions
    gi,            \* schedule_functions' loop index i (groups gi..1 are left)
    pc,            \* position of the driver
    err,           \* the diagnostic raised ("" when none)
    found,         \* the injector's found_store_level / found_compute_level
    target         \* the features of the Target

vars == <<env, outputs, fused_groups, s, gi, pc, err, found, target>>

---------------------------------------------------------------------------
(* Names and loop levels *)

Outermost == "__outermost"
RootVar == "__root"

\* "<f>.s<st>.<v>"
LoopName(f, st, v) == [f |-> f, s |-> st, v |-> v, fu |-> FALSE, sfx |-> ""]
\* LoopLevel::root().to_string(), the name of the skeleton's loop
root_var == [f |-> "", s |-> 0, v |-> RootVar, fu |-> FALSE, sfx |-> ""]
\* name + ".loop_min" and so on
Suffixed(n, x) == [n EXCEPT !.sfx = x]
\* op->name.substr(0, last_dot) + ".fused." + op->name.substr(last_dot + 1)
FusedName(n) == [n EXCEPT !.fu = TRUE]

Inline == [f |-> "", v |-> ""]
Root == [f |-> "", v |-> RootVar]
Level(f, v) == [f |-> f, v |-> v]
is_inline(l) == l.v = ""
is_root(l) == l.v = RootVar

\* LoopLevel::match(const string &loop): the loop's name starts with
\* func_name + "." and ends with "." + var_name
match(l, n) == n.sfx = "" /\ n.f = l.f /\ n.v = l.v /\ l.v # ""
\* LoopLevel::match(const LoopLevel &) and LoopLevel::operator==
match_level(l1, l2) == l1.f = l2.f /\ l1.v = l2.v

\* var_name_match(candidate, var): equal, or candidate ends with "." + var;
\* the dims of the model are unqualified, so only equality is left
var_name_match(candidate, var) == candidate = var

\* std::find_if(dims.begin(), dims.end(), var_name_match(d.var, v)) - begin:
\* 1-based; Len(dims) + 1 stands for dims.end()
RECURSIVE FindDimFrom(_, _, _)
FindDimFrom(dims, v, i) ==
    IF i > Len(dims) THEN i
    ELSE IF var_name_match(dims[i].var, v) THEN i
    ELSE FindDimFrom(dims, v, i + 1)
FindDim(dims, v) == FindDimFrom(dims, v, 1)

---------------------------------------------------------------------------
(* Expressions and statements *)

Var(n) == [k |-> "Var", n |-> n]
Const(c) == [k |-> "Const", c |-> c]
Bin(op, a, b) == [k |-> op, a |-> a, b |-> b]
\* likely(a <= b)
LE(a, b) == [k |-> "LE", a |-> a, b |-> b]
\* a predicate of a definition: the loop variables it reads, the functions
\* it calls and whether Call::is_pure() fails for one of its calls
Pred(vs, calls, impure) == [k |-> "Pred", vs |-> vs, calls |-> calls, impure |-> impure]

Undef == [k |-> "Undef"]
defined(st) == st.k # "Undef"
Evaluate0 == [k |-> "Evaluate"]
For(n, mn, ext, ft, api, body) ==
    [k |-> "For", name |-> n, min |-> mn, extent |-> ext, ft |-> ft, api |-> api, body |-> body]
\* LetStmt::make(n, value, body).  A chain of LetStmts is one node: binds is
\* the sequence of its bindings [name, value], outermost first, and body the
\* statement under the innermost of them, which is never a LetStmt itself
Binding(n, value) == [name |-> n, value |-> value]
LetStmt(n, value, body) ==
    IF body.k = "Let"
    THEN [body EXCEPT !.binds = <<Binding(n, value)>> \o @]
    ELSE [k |-> "Let", binds |-> <<Binding(n, value)>>, body |-> body]
IfThenElse(c, body, els) == [k |-> "If", cond |-> c, body |-> body, els |-> els]
Provide(f, site, calls) == [k |-> "Provide", name |-> f, site |-> site, calls |-> calls]
Realize(f, body) == [k |-> "Realize", name |-> f, body |-> body]
ProducerConsumer(f, p, body) == [k |-> "PC", name |-> f, prod |-> p, body |-> body]
AssertStmt(condition, message) == [k |-> "Assert", cond |-> condition, message |-> message]
\* Block::make(a, b)
Block(a, b) == [k |-> "Block", first |-> a, rest |-> b]

\* the names an expression or a condition reads
RECURSIVE ExprVars(_)
ExprVars(e) ==
    CASE e.k = "Var" -> {e.n}
      [] e.k = "Const" -> {}
      [] e.k = "Pred" -> e.vs
      [] OTHER -> ExprVars(e.a) \cup ExprVars(e.b)
expr_uses_var(e, n) == n \in ExprVars(e)

\* the functions an expression or a condition calls
ExprCalls(e) == IF e.k = "Pred" THEN e.calls ELSE {}

\* contains_impure_call
contains_impure_call(e) == e.k = "Pred" /\ e.impure

\* the substitution that leaves the names of hidden free
Without(m, hidden) == [n \in DOMAIN m \ hidden |-> m[n]]

\* substitute(name, value, expr), for the map m of names to values
RECURSIVE SubstExpr(_, _)
SubstExpr(m, e) ==
    CASE e.k = "Var" -> IF e.n \in DOMAIN m THEN m[e.n] ELSE e
      [] e.k = "Const" -> e
      [] e.k = "Pred" ->
            [e EXCEPT !.vs = (e.vs \ DOMAIN m)
                             \cup UNION {ExprVars(m[n]) : n \in e.vs \cap DOMAIN m}]
      [] OTHER -> [e EXCEPT !.a = SubstExpr(m, e.a), !.b = SubstExpr(m, e.b)]

SubstSeq(m, es) == [i \in 1..Len(es) |-> SubstExpr(m, es[i])]

\* while (const LetStmt *l = body.as<LetStmt>()) { lets.push_back(...); body = l->body; }
PeelLets(st) ==
    IF st.k = "Let" THEN [lets |-> st.binds, body |-> st.body] ELSE [lets |-> <<>>, body |-> st]

\* for (i = lets.size(); i > 0; i--) body = LetStmt::make(lets[i-1]..., body)
WrapLets(lets, body) ==
    IF lets = <<>> THEN body
    ELSE [k |-> "Let", binds |-> lets \o PeelLets(body).lets, body |-> PeelLets(body).body]

\* the names bound by the first i bindings of a chain of LetStmts
BoundBy(binds, i) == {binds[j].name : j \in 1..i}

\* substitute over a chain of LetStmts: a binding hides its name from the
\* bindings after it
SubstBinds(m, binds) ==
    [i \in 1..Len(binds) |->
        [binds[i] EXCEPT !.value = SubstExpr(Without(m, BoundBy(binds, i - 1)), @)]]

\* substitute(name, value, stmt), for the map m of names to values; a LetStmt
\* or For of the same name hides it
RECURSIVE substitute(_, _)
substitute(m, st) ==
    CASE DOMAIN m = {} -> st
      [] st.k = "For" ->
            [st EXCEPT !.min = SubstExpr(m, st.min),
                       !.extent = SubstExpr(m, st.extent),
                       !.body = substitute(Without(m, {st.name}), st.body)]
      [] st.k = "Let" ->
            [st EXCEPT !.binds = SubstBinds(m, st.binds),
                       !.body = substitute(Without(m, BoundBy(st.binds, Len(st.binds))),
                                           st.body)]
      [] st.k = "If" ->
            [st EXCEPT !.cond = SubstExpr(m, st.cond),
                       !.body = substitute(m, st.body),
                       !.els = substitute(m, st.els)]
      [] st.k = "Block" ->
            [st EXCEPT !.first = substitute(m, st.first),
                       !.rest = substitute(m, st.rest)]
      [] st.k = "Provide" -> [st EXCEPT !.site = SubstSeq(m, st.site)]
      [] st.k = "Assert" -> [st EXCEPT !.cond = SubstExpr(m, st.cond)]
      [] st.k \in {"Realize", "PC"} -> [st EXCEPT !.body = substitute(m, st.body)]
      [] OTHER -> st

\* simplify, on the expressions the pass hands it: constants are folded and
\* (a + c) - c is a
RECURSIVE simplify(_)
simplify(e) ==
    IF e.k \in {"Var", "Const", "Pred"} THEN e
    ELSE LET a == simplify(e.a)
             b == simplify(e.b)
         IN IF a.k = "Const" /\ b.k = "Const" /\ e.k \in {"Add", "Sub", "Min", "Max"}
            THEN Const(CASE e.k = "Add" -> a.c + b.c
                         [] e.k = "Sub" -> a.c - b.c
                         [] e.k = "Min" -> IF a.c <= b.c THEN a.c ELSE b.c
                         [] e.k = "Max" -> IF a.c >= b.c THEN a.c ELSE b.c)
            ELSE IF e.k = "Sub" /\ a.k = "Add" /\ b.k = "Const" /\ a.b = b
            THEN a.a
            ELSE [e EXCEPT !.a = a, !.b = b]
is_one(e) == e.k = "Const" /\ e.c = 1

\* IsUsedInStmt: a Call of f anywhere in the statement
RECURSIVE function_is_used_in_stmt(_, _)
function_is_used_in_stmt(f, st) ==
    CASE st.k = "For" -> function_is_used_in_stmt(f, st.body)
      [] st.k = "Let" -> function_is_used_in_stmt(f, st.body)
      [] st.k = "If" -> \/ f \in ExprCalls(st.cond)
                        \/ function_is_used_in_stmt(f, st.body)
                        \/ function_is_used_in_stmt(f, st.els)
      [] st.k = "Block" -> \/ function_is_used_in_stmt(f, st.first)
                           \/ function_is_used_in_stmt(f, st.rest)
      [] st.k = "Provide" -> f \in st.calls
      [] st.k \in {"Realize", "PC"} -> function_is_used_in_stmt(f, st.body)
      [] OTHER -> FALSE

\* IsRealizedInStmt: a Realize of f anywhere in the statement
RECURSIVE function_is_already_realized_in_stmt(_, _)
function_is_already_realized_in_stmt(f, st) ==
    CASE st.k \in {"For", "Let", "PC"} -> function_is_already_realized_in_stmt(f, st.body)
      [] st.k = "If" -> \/ function_is_already_realized_in_stmt(f, st.body)
                        \/ function_is_already_realized_in_stmt(f, st.els)
      [] st.k = "Block" -> \/ function_is_already_realized_in_stmt(f, st.first)
                           \/ function_is_already_realized_in_stmt(f, st.rest)
      [] st.k = "Realize" -> st.name = f \/ function_is_already_realized_in_stmt(f, st.body)
      [] OTHER -> FALSE

---------------------------------------------------------------------------
(* The pipeline: Function, Definition, Schedule                             *)
(*                                                                         *)
(* A Function is [name, args, defs, compute_level, store_level]; defs[1]   *)
(* is the pure definition (stage 0), defs[i+1] update i.  A Definition is  *)
(* [dims, fuse_level, fused_pairs, calls, preds]: dims innermost first,    *)
(* each [var, ft, api], the last one __outermost; calls the functions its  *)
(* values call; preds its split_predicate.  The schedules of the model     *)
(* hold no split, no rvar and no specialization, so that apply_splits      *)
(* yields nothing.                                                         *)
(***************************************************************************)

Dim(v, ft, api) == [var |-> v, ft |-> ft, api |-> api]
FusedPair(f1, s1, f2, s2, v) ==
    [func_1 |-> f1, stage_1 |-> s1, func_2 |-> f2, stage_2 |-> s2, var_name |-> v]

\* (stage == 0) ? f.definition() : f.update(stage - 1)
DefOf(fn, stage) == fn.defs[stage + 1]
NumUpdates(fn) == Len(fn.defs) - 1
\* Function::is_pure
is_pure(fn) == NumUpdates(fn) = 0
\* Specialization: the condition and the alternative definition
Specialization(c, def) == [condition |-> c, definition |-> def]
\* Function::has_extern_definition
has_extern_definition(fn) == fn.extern
\* Function::can_be_inlined: pure, not extern and not specialized
can_be_inlined(fn) ==
    is_pure(fn) /\ ~has_extern_definition(fn) /\ DefOf(fn, 0).specializations = <<>>

---------------------------------------------------------------------------
(* build_provide_loop_nest *)

NoName == [f |-> "", s |-> 0, v |-> "", fu |-> FALSE, sfx |-> ""]
Container(type, idx, n, value) == [type |-> type, dim_idx |-> idx, name |-> n, value |-> value]

\* the store node with no guard around it
FuseGuardsNone(f, stage, dims, i, stmt) == stmt

\* the guards on the fused loop vars, dims start_fuse .. size-2 (here 1-based:
\* start_fuse .. Len(dims) - 1), innermost first; start_fuse < 1 means none
RECURSIVE FuseGuards(_, _, _, _, _)
FuseGuards(f, stage, dims, i, stmt) ==
    IF i < 1 \/ i > Len(dims) - 1 THEN stmt
    ELSE LET v == LoopName(f, stage, dims[i].var)
             g1 == IfThenElse(LE(Var(Suffixed(v, "loop_min")), Var(v)), stmt, Undef)
             g2 == IfThenElse(LE(Var(v), Var(Suffixed(v, "loop_max"))), g1, Undef)
         IN FuseGuards(f, stage, dims, i + 1, g2)

\* for (i = dims.size() - 1; i >= 0; i--) nest.push_back({For, i, prefix + dim.var})
RECURSIVE ForContainers(_, _, _, _)
ForContainers(f, stage, dims, i) ==
    IF i < 1 THEN <<>>
    ELSE <<Container("For", i, LoopName(f, stage, dims[i].var), Undef)>>
         \o ForContainers(f, stage, dims, i - 1)

\* qualify(prefix, pred)
qualify(f, stage, p) ==
    [p EXCEPT !.vs = {LoopName(f, stage, v) : v \in p.vs}]

RECURSIVE IfContainers(_, _, _)
IfContainers(f, stage, preds) ==
    IF preds = <<>> THEN <<>>
    ELSE <<Container("If", 0, NoName, qualify(f, stage, Head(preds)))>>
         \o IfContainers(f, stage, Tail(preds))

\* the inner loop with the dependence read the other way round: push nest[p]
\* up by one while the container outside it does not read the name of nest[p]
RECURSIVE PushUpUnlessRead(_, _)
PushUpUnlessRead(nest, p) ==
    IF p <= 1 THEN nest
    ELSE IF ~(nest[p - 1].type # "For" /\ expr_uses_var(nest[p - 1].value, nest[p].name))
         THEN PushUpUnlessRead([nest EXCEPT ![p - 1] = nest[p], ![p] = nest[p - 1]], p - 1)
         ELSE nest

\* the inner loop that stops at no container: nest[p] ends outermost
RECURSIVE PushUpToTop(_, _)
PushUpToTop(nest, p) ==
    IF p <= 1 THEN nest
    ELSE PushUpToTop([nest EXCEPT ![p - 1] = nest[p], ![p] = nest[p - 1]], p - 1)

\* the inner loop of the reverse insertion sort: push nest[p] up by one while
\* the container outside it does not bind a name it uses
RECURSIVE PushUp(_, _)
PushUp(nest, p) ==
    IF p <= 1 THEN nest
    ELSE IF ~expr_uses_var(nest[p].value, nest[p - 1].name)
         THEN PushUp([nest EXCEPT ![p - 1] = nest[p], ![p] = nest[p - 1]], p - 1)
         ELSE nest

\* the sorting loop that pushes every container up, a predicate with an
\* impure call included
RECURSIVE SortContainersAll(_, _, _, _)
SortContainersAll(nest, i, last, isIf) ==
    IF i > last THEN nest
    ELSE SortContainersAll(PushUp(nest, i), i + 1, last, isIf)

\* the two sorting loops, over the containers first .. last
RECURSIVE SortContainers(_, _, _, _)
SortContainers(nest, i, last, isIf) ==
    IF i > last THEN nest
    ELSE IF isIf /\ contains_impure_call(nest[i].value)
         THEN SortContainers(nest, i + 1, last, isIf)
         ELSE SortContainers(PushUp(nest, i), i + 1, last, isIf)

\* "Rewrap the statement in the containing lets and fors"
\* for (i = nest.size() - 1; i >= 0; i--): the containers i .. last around stmt
RECURSIVE Rewrap(_, _, _, _)
Rewrap(nest, dims, i, stmt) ==
    IF i > Len(nest) THEN stmt
    ELSE CASE nest[i].type = "Let" ->
                LetStmt(nest[i].name, nest[i].value, Rewrap(nest, dims, i + 1, stmt))
           [] nest[i].type = "If" ->
                IfThenElse(nest[i].value, Rewrap(nest, dims, i + 1, stmt), Undef)
           [] OTHER ->
                For(nest[i].name, Var(Suffixed(nest[i].name, "loop_min")),
                    Var(Suffixed(nest[i].name, "loop_extent")),
                    dims[nest[i].dim_idx].ft, dims[nest[i].dim_idx].api,
                    Rewrap(nest, dims, i + 1, stmt))

\* the loop bounds of a pure dim in terms of what bounds inference supplies:
\* the bindings of loop_max, loop_min and loop_extent, outermost first
PureDimLets(v) ==
    <<Binding(Suffixed(v, "loop_max"), Var(Suffixed(v, "max"))),
      Binding(Suffixed(v, "loop_min"), Var(Suffixed(v, "min"))),
      Binding(Suffixed(v, "loop_extent"),
              Bin("Sub", Bin("Add", Var(Suffixed(v, "max")), Const(1)),
                  Var(Suffixed(v, "min"))))>>

\* for (const std::string &i : f.args()): the bindings of the arg looped over
\* last are the outermost
RECURSIVE PureLets(_, _, _)
PureLets(f, stage, args) ==
    IF args = <<>> THEN <<>>
    ELSE PureLets(f, stage, Tail(args)) \o PureDimLets(LoopName(f, stage, Head(args)))

\* the bounds of the dummy outermost dim
OutermostLets(o) ==
    <<Binding(Suffixed(o, "loop_extent"), Const(1)),
      Binding(Suffixed(o, "loop_max"), Const(0)),
      Binding(Suffixed(o, "loop_min"), Const(0))>>

RECURSIVE QualifiedSite(_, _, _)
QualifiedSite(f, stage, args) ==
    IF args = <<>> THEN <<>>
    ELSE <<Var(LoopName(f, stage, Head(args)))>> \o QualifiedSite(f, stage, Tail(args))

\* for (i = let_stmts.size() - 1; i >= 0; i--) nest.push_back({Let, 0, name, value})
RECURSIVE LetContainers(_, _)
LetContainers(let_stmts, i) ==
    IF i < 1 THEN <<>>
    ELSE <<Container("Let", 0, let_stmts[i].name, let_stmts[i].value)>>
         \o LetContainers(let_stmts, i - 1)

\* the containers vector before it is sorted: the loops, the lets of the
\* splits, the predicates
UnsortedNest(f, stage, def) ==
    ForContainers(f, stage, def.dims, Len(def.dims))
        \o LetContainers(def.lets, Len(def.lets))
        \o IfContainers(f, stage, def.preds)

\* "Resort the containers vector so that lets are as far outwards as possible"
LetsSorted(f, stage, def) ==
    LET nest == UnsortedNest(f, stage, def)
    IN SortContainers(nest, Len(def.dims) + 1, Len(nest) - Len(def.preds), FALSE)

\* "Sort the predicate guards so they are as far outwards as possible"
PredicatesSorted(f, stage, def) ==
    LET nest == LetsSorted(f, stage, def)
    IN SortContainers(nest, Len(nest) - Len(def.preds) + 1, Len(nest), TRUE)

build_provide_loop_nest_helper(f, stage, start_fuse, args, def) ==
    LET dims == def.dims
        stmt0 == Provide(f, QualifiedSite(f, stage, args), def.calls)
        stmt1 == FuseGuards(f, stage, dims, start_fuse, stmt0)
        stmt2 == Rewrap(PredicatesSorted(f, stage, def), dims, 1, stmt1)
    IN WrapLets(PureLets(f, stage, args) \o OutermostLets(LoopName(f, stage, Outermost)), stmt2)

\* the same loop run from the first specialization to the last, which
\* leaves the last specialization outermost
RECURSIVE FirstToLast(_, _, _)
FirstToLast(stmt, copies, i) ==
    IF i = 0 THEN stmt
    ELSE IfThenElse(copies[i].c, copies[i].then_case, FirstToLast(stmt, copies, i - 1))

\* for (i = specializations.size(); i > 0; i--)
\*     stmt = IfThenElse::make(c, then_case, stmt)
\* copies[i] is the nest built for specializations[i].definition
RECURSIVE LastToFirst(_, _, _)
LastToFirst(stmt, copies, i) ==
    IF i = 0 THEN stmt
    ELSE LastToFirst(IfThenElse(copies[i].c, copies[i].then_case, stmt), copies, i - 1)

RECURSIVE build_provide_loop_nest(_, _, _, _, _)
build_provide_loop_nest(f, stage, start_fuse, args, def) ==
    LET stmt == build_provide_loop_nest_helper(f, stage, start_fuse, args, def)
        specializations == def.specializations
        copies == [i \in 1..Len(specializations) |->
                      [c |-> specializations[i].condition,
                       then_case |-> build_provide_loop_nest(f, stage, start_fuse, args,
                                         specializations[i].definition)]]
    IN LastToFirst(stmt, copies, Len(specializations))

\* build_produce, for a function with no extern definition (start_fuse -1)
build_produce(fn) == build_provide_loop_nest(fn.name, 0, 0, fn.args, DefOf(fn, 0))

\* build_update followed by Block::make(updates): stages i .. last, in order
RECURSIVE build_update(_, _)
build_update(fn, i) ==
    IF i > NumUpdates(fn) THEN Undef
    ELSE LET loop == build_provide_loop_nest(fn.name, i, 0, fn.args, DefOf(fn, i))
             rest == build_update(fn, i + 1)
         IN IF defined(rest) THEN Block(loop, rest) ELSE loop

---------------------------------------------------------------------------
(* InjectRealization: the single-function injector                         *)
(*                                                                         *)
(* A mutator is an operator from the statement and the injector's fields   *)
(* st = [fc, fs, err] (found_compute_level, found_store_level, the         *)
(* internal error raised) to [s, fc, fs, err]; the fields are threaded     *)
(* through the traversal in IRMutator's order.                             *)
(***************************************************************************)

MutState(fc, fs, e) == [fc |-> fc, fs |-> fs, err |-> e]
MutResult(stmt, st) == [s |-> stmt, fc |-> st.fc, fs |-> st.fs, err |-> st.err]
StateOf(r) == [fc |-> r.fc, fs |-> r.fs, err |-> r.err]

\* the internal_asserts of is_the_right_level: "" when all hold
is_the_right_level_assert(e, loop_name) ==
    IF loop_name = root_var THEN ""
    ELSE IF loop_name.f \notin DOMAIN e THEN "internal: is_the_right_level: function not in env"
    ELSE IF loop_name.s > NumUpdates(e[loop_name.f]) THEN "internal: is_the_right_level: stage"
    ELSE LET def == DefOf(e[loop_name.f], loop_name.s)
         IN IF is_inline(def.fuse_level) \/ is_root(def.fuse_level) THEN ""
            ELSE IF FindDim(def.dims, def.fuse_level.v) > Len(def.dims)
                    \/ FindDim(def.dims, loop_name.v) > Len(def.dims)
                 THEN "internal: is_the_right_level: dim not found"
                 ELSE ""

\* the same with the fused loop itself accepted
is_the_right_level_or_fused(e, loop_name) ==
    IF loop_name = root_var THEN TRUE
    ELSE LET def == DefOf(e[loop_name.f], loop_name.s)
         IN IF is_inline(def.fuse_level) \/ is_root(def.fuse_level) THEN TRUE
            ELSE FindDim(def.dims, loop_name.v) <= FindDim(def.dims, def.fuse_level.v)

is_the_right_level(e, loop_name) ==
    IF loop_name = root_var THEN TRUE
    ELSE LET def == DefOf(e[loop_name.f], loop_name.s)
         IN IF is_inline(def.fuse_level) \/ is_root(def.fuse_level) THEN TRUE
            ELSE FindDim(def.dims, loop_name.v) < FindDim(def.dims, def.fuse_level.v)

\* the Block of the stages of a production that are defined
BlockOfDefined(a, b) ==
    IF defined(a) /\ defined(b) THEN Block(a, b) ELSE IF defined(a) THEN a ELSE b

\* InjectRealization::build_pipeline
build_pipeline(fn, stmt) ==
    Block(ProducerConsumer(fn.name, TRUE, BlockOfDefined(build_produce(fn), build_update(fn, 1))),
          ProducerConsumer(fn.name, FALSE, stmt))

\* Bound: a bound of the schedule on a pure var; a field the user left out
\* is Undef
ScheduleBound(var, min, extent, modulus) ==
    [var |-> var, min |-> min, extent |-> extent, modulus |-> modulus]

\* the check with the two comparisons turned around
ExplicitCheckReversed(min_val, max_val, min_var, max_var) ==
    Bin("And", LE(min_var, min_val), Bin("GE", max_var, max_val))

\* Expr check = (min_val <= min_var) && (max_val >= max_var)
ExplicitCheck(min_val, max_val, min_var, max_var) ==
    Bin("And", LE(min_val, min_var), Bin("GE", max_val, max_var))

\* the body of the inner loop of inject_explicit_bounds, for bound b at a stage
ExplicitBound(body, fn, stage, b) ==
    LET min_var == Var(Suffixed(LoopName(fn.name, stage, b.var), "min_unbounded"))
        max_var == Var(Suffixed(LoopName(fn.name, stage, b.var), "max_unbounded"))
        b_min == IF ~defined(b.min) THEN min_var ELSE b.min
        max_val == Bin("Sub", Bin("Add", b.extent, b_min), Const(1))
        min_val == b_min
        check == ExplicitCheck(min_val, max_val, min_var, max_var)
        error_msg == [name |-> "halide_error_explicit_bounds_too_small",
                      var |-> b.var, func |-> fn.name, min_val |-> min_val,
                      max_val |-> max_val, min_var |-> min_var, max_var |-> max_var]
    IN IF ~defined(b.extent) THEN body
       ELSE Block(AssertStmt(check, error_msg), body)

\* inject_explicit_bounds from bound i of a stage on
RECURSIVE ExplicitBoundsFrom(_, _, _, _)
ExplicitBoundsFrom(body, fn, stage, i) ==
    IF stage > NumUpdates(fn) THEN body
    ELSE IF i > Len(fn.bounds) THEN ExplicitBoundsFrom(body, fn, stage + 1, 1)
    ELSE ExplicitBoundsFrom(ExplicitBound(body, fn, stage, fn.bounds[i]), fn, stage, i + 1)

inject_explicit_bounds(body, fn) == ExplicitBoundsFrom(body, fn, 0, 1)

\* target.has_feature
has_feature(t, feature) == feature \in t

\* build_realize without the test of is_output
build_realize_always(stmt, fn, is_output) ==
    LET r == Realize(fn.name, stmt)
    IN IF has_feature(target, "NoAsserts") THEN r ELSE inject_explicit_bounds(r, fn)

\* InjectRealization::build_realize and InjectGroupRealization::build_realize
build_realize(stmt, fn, is_output) ==
    LET r == IF ~is_output THEN Realize(fn.name, stmt) ELSE stmt
    IN IF has_feature(target, "NoAsserts") THEN r ELSE inject_explicit_bounds(r, fn)

\* if (compute_level.match(for_loop->name) && is_the_right_level(...)) { ... }
AtComputeLevel(e, fn, name) == match(fn.compute_level, name) /\ is_the_right_level(e, name)
ComputeLevelBody(e, fn, is_output, name, body) ==
    IF AtComputeLevel(e, fn, name)
       /\ ~function_is_already_realized_in_stmt(fn.name, body)
       /\ (function_is_used_in_stmt(fn.name, body) \/ is_output)
    THEN build_pipeline(fn, body) ELSE body

\* if (store_level.match(for_loop->name) && is_the_right_level(...)) { ... }
AtStoreLevel(e, fn, name) == match(fn.store_level, name) /\ is_the_right_level(e, name)
StoreLevelBody(e, fn, is_output, name, body) ==
    IF AtStoreLevel(e, fn, name)
       /\ ~function_is_already_realized_in_stmt(fn.name, body)
       /\ (function_is_used_in_stmt(fn.name, body) \/ is_output)
    THEN build_realize(body, fn, is_output) ELSE body

\* what visit(const For *) does to the mutated body r.s of the loop
\* the same without the assertion on found_compute_level
InjectAtLoopUnasserted(e, fn, is_output, name, r) ==
    IF r.err # "" THEN r
    ELSE IF (match(fn.compute_level, name) \/ match(fn.store_level, name))
            /\ is_the_right_level_assert(e, name) # ""
    THEN [r EXCEPT !.err = is_the_right_level_assert(e, name)]
    ELSE [s |-> StoreLevelBody(e, fn, is_output, name,
                               ComputeLevelBody(e, fn, is_output, name, r.s)),
          fc |-> r.fc \/ AtComputeLevel(e, fn, name),
          fs |-> r.fs \/ AtStoreLevel(e, fn, name), err |-> ""]

InjectAtLoop(e, fn, is_output, name, r) ==
    IF r.err # "" THEN r
    ELSE IF (match(fn.compute_level, name) \/ match(fn.store_level, name))
            /\ is_the_right_level_assert(e, name) # ""
    THEN [r EXCEPT !.err = is_the_right_level_assert(e, name)]
    ELSE IF AtStoreLevel(e, fn, name) /\ ~(r.fc \/ AtComputeLevel(e, fn, name))
    THEN [r EXCEPT !.err = "internal: compute level not found within the store level"]
    ELSE [s |-> StoreLevelBody(e, fn, is_output, name,
                               ComputeLevelBody(e, fn, is_output, name, r.s)),
          fc |-> r.fc \/ AtComputeLevel(e, fn, name),
          fs |-> r.fs \/ AtStoreLevel(e, fn, name), err |-> ""]

\* the loop with the lets dug through put back around the new body
ReinstateLets(stmt, lets, q) == [q EXCEPT !.s = [stmt EXCEPT !.body = WrapLets(lets, q.s)]]

RECURSIVE InjectRealization(_, _, _, _, _)
InjectRealization(e, fn, is_output, st, stmt) ==
    IF st.err # "" \/ ~defined(stmt) THEN MutResult(stmt, st)
    ELSE CASE stmt.k = "For" ->
                LET r == InjectRealization(e, fn, is_output, st, PeelLets(stmt.body).body)
                IN IF r.err # "" THEN r
                   ELSE ReinstateLets(stmt, PeelLets(stmt.body).lets,
                                      InjectAtLoop(e, fn, is_output, stmt.name, r))
           [] stmt.k = "Provide" ->
                IF stmt.name # fn.name /\ ~is_pure(fn) /\ is_inline(fn.compute_level)
                   /\ function_is_used_in_stmt(fn.name, stmt)
                THEN [s |-> build_realize(build_pipeline(fn, stmt), fn, is_output),
                      fc |-> TRUE, fs |-> TRUE, err |-> ""]
                ELSE MutResult(stmt, st)
           [] stmt.k = "Block" ->
                LET r1 == InjectRealization(e, fn, is_output, st, stmt.first)
                    r2 == InjectRealization(e, fn, is_output, StateOf(r1), stmt.rest)
                IN [r2 EXCEPT !.s = Block(r1.s, r2.s)]
           [] stmt.k = "If" ->
                LET r1 == InjectRealization(e, fn, is_output, st, stmt.body)
                    r2 == InjectRealization(e, fn, is_output, StateOf(r1), stmt.els)
                IN [r2 EXCEPT !.s = [stmt EXCEPT !.body = r1.s, !.els = r2.s]]
           [] stmt.k = "Let" ->
                LET r == InjectRealization(e, fn, is_output, st, stmt.body)
                IN [r EXCEPT !.s = WrapLets(stmt.binds, r.s)]
           [] stmt.k \in {"Realize", "PC"} ->
                LET r == InjectRealization(e, fn, is_output, st, stmt.body)
                IN [r EXCEPT !.s = [stmt EXCEPT !.body = r.s]]
           [] OTHER -> MutResult(stmt, st)

---------------------------------------------------------------------------
(* ComputeLegalSchedules and validate_schedule *)

Site(par, l) == [is_parallel |-> par, loop_level |-> l]

\* ComputeLegalSchedules::visit(const For *): the site of a loop
SiteOfLoop(st) ==
    Site(st.ft \in {"Parallel", "Vectorized"},
         IF st.name.f = "" THEN Root ELSE Level(st.name.f, st.name.v))

\* register_use; u = [found, sites_allowed]
register_use(u, sites) ==
    IF ~u.found THEN [found |-> TRUE, sites_allowed |-> sites]
    ELSE [found |-> TRUE,
          sites_allowed |->
              SelectSeq(sites, LAMBDA s1 :
                  \E i \in 1..Len(u.sites_allowed) :
                      match_level(s1.loop_level, u.sites_allowed[i].loop_level))]

RECURSIVE ComputeLegalSchedules(_, _, _, _)
ComputeLegalSchedules(f, st, sites, u) ==
    CASE st.k = "For" -> ComputeLegalSchedules(f, st.body, Append(sites, SiteOfLoop(st)), u)
      [] st.k \in {"Let", "Realize", "PC"} -> ComputeLegalSchedules(f, st.body, sites, u)
      [] st.k = "If" ->
            LET u0 == IF f \in ExprCalls(st.cond) THEN register_use(u, sites) ELSE u
                u1 == ComputeLegalSchedules(f, st.body, sites, u0)
            IN ComputeLegalSchedules(f, st.els, sites, u1)
      [] st.k = "Block" ->
            ComputeLegalSchedules(f, st.rest, sites, ComputeLegalSchedules(f, st.first, sites, u))
      [] st.k = "Provide" -> IF f \in st.calls THEN register_use(u, sites) ELSE u
      [] OTHER -> u

sites_allowed(f, st) ==
    ComputeLegalSchedules(f, st, <<>>, [found |-> FALSE, sites_allowed |-> <<>>]).sites_allowed

\* the matching of the two levels with compute_at_ok set whatever store_at_ok is
MatchSitesUnordered(sites, store_at, compute_at, i, v) ==
    LET st == {k \in i..Len(sites) : match_level(sites[k].loop_level, store_at)}
        co == {k \in i..Len(sites) : match_level(sites[k].loop_level, compute_at)}
        last(S) == IF S = {} THEN 0 ELSE CHOOSE k \in S : \A j \in S : j <= k
    IN [store_at_ok |-> st # {}, compute_at_ok |-> co # {},
        store_idx |-> last(st), compute_idx |-> last(co)]

\* the loop of validate_schedule over the sites; v = [store_at_ok,
\* compute_at_ok, store_idx, compute_idx], indices 1-based, 0 when unset
RECURSIVE MatchSites(_, _, _, _, _)
MatchSites(sites, store_at, compute_at, i, v) ==
    IF i > Len(sites) THEN v
    ELSE LET v1 == IF match_level(sites[i].loop_level, store_at)
                   THEN [v EXCEPT !.store_at_ok = TRUE, !.store_idx = i] ELSE v
             v2 == IF match_level(sites[i].loop_level, compute_at)
                   THEN [v1 EXCEPT !.compute_at_ok = v1.store_at_ok, !.compute_idx = i] ELSE v1
         IN MatchSites(sites, store_at, compute_at, i + 1, v2)

\* the test on the store level alone
OutputStoredAtRoot(store_at, compute_at) == is_root(store_at)

\* if (store_at.is_root() && compute_at.is_root())
OutputAtRoot(store_at, compute_at) == is_root(store_at) /\ is_root(compute_at)

\* validate_schedule: "" when the schedule of fn is accepted, else the user error
validate_schedule(fn, stmt, is_output) ==
    LET store_at == fn.store_level
        compute_at == fn.compute_level
        sites == sites_allowed(fn.name, stmt)
        v == MatchSites(sites, store_at, compute_at, 1,
                        [store_at_ok |-> FALSE, compute_at_ok |-> FALSE,
                         store_idx |-> 0, compute_idx |-> 0])
        race == v.store_at_ok /\ v.compute_at_ok
                /\ \E i \in (v.store_idx + 1)..v.compute_idx : sites[i].is_parallel
    IN IF is_output
       THEN IF OutputAtRoot(store_at, compute_at) THEN ""
            ELSE "user: output must be scheduled compute_root"
       ELSE IF is_inline(store_at) /\ is_inline(compute_at)
       THEN IF DefOf(fn, 0).specializations = <<>> THEN ""
            ELSE "user: scheduled inline, so it must not have any specializations"
       ELSE IF race THEN "user: stored outside a parallel loop but computed within it"
       ELSE IF ~v.store_at_ok \/ ~v.compute_at_ok THEN "user: computed at an invalid location"
       ELSE ""

---------------------------------------------------------------------------
(* inject_stmt and SubstituteBounds *)

\* InjectStmt::visit(const For *): r = [s, found_level]
RECURSIVE InjectStmt(_, _, _)
InjectStmt(injected, level, stmt) ==
    CASE stmt.k = "For" ->
           LET r == InjectStmt(injected, level, stmt.body)
           IN IF match(level, stmt.name)
              THEN [s |-> [stmt EXCEPT !.body = Block(r.s, injected)], found_level |-> TRUE]
              ELSE [s |-> [stmt EXCEPT !.body = r.s], found_level |-> r.found_level]
      [] stmt.k = "Block" ->
           LET r1 == InjectStmt(injected, level, stmt.first)
               r2 == InjectStmt(injected, level, stmt.rest)
           IN [s |-> Block(r1.s, r2.s), found_level |-> r1.found_level \/ r2.found_level]
      [] stmt.k = "If" ->
           LET r1 == InjectStmt(injected, level, stmt.body)
               r2 == InjectStmt(injected, level, stmt.els)
           IN [s |-> [stmt EXCEPT !.body = r1.s, !.els = r2.s],
               found_level |-> r1.found_level \/ r2.found_level]
      [] stmt.k \in {"Let", "Realize", "PC"} ->
           LET r == InjectStmt(injected, level, stmt.body)
           IN [s |-> [stmt EXCEPT !.body = r.s], found_level |-> r.found_level]
      [] OTHER -> [s |-> stmt, found_level |-> FALSE]

\* inject_stmt(root, injected, level): [s, err]
inject_stmt(root, injected, level) ==
    IF ~defined(root) THEN [s |-> injected, err |-> ""]
    ELSE IF ~defined(injected) THEN [s |-> root, err |-> ""]
    ELSE IF is_inline(level) \/ is_root(level) THEN [s |-> Block(root, injected), err |-> ""]
    ELSE LET r == InjectStmt(injected, level, root)
         IN [s |-> r.s,
             err |-> IF r.found_level THEN "" ELSE "internal: inject_stmt: level not found"]

\* a map<string, Expr>: a function from names; emplace keeps an existing entry
EmptyMap == [n \in {} |-> Undef]
emplace(m, n, e) == IF n \in DOMAIN m THEN m ELSE m @@ (n :> e)
put(m, n, e) == IF n \in DOMAIN m THEN [m EXCEPT ![n] = e] ELSE m @@ (n :> e)

\* the bindings of a chain of LetStmts captured in order: the last binding of
\* a key is the one left in bounds
CaptureBinds(bounds, binds) ==
    [n \in DOMAIN bounds |->
        LET at == {i \in 1..Len(binds) : binds[i].name = n}
        IN IF at = {} THEN bounds[n]
           ELSE binds[CHOOSE i \in at : \A j \in at : j <= i].value]

\* SubstituteBounds::visit(const LetStmt *), in the order of the traversal:
\* the value of every LetStmt whose name is a key of bounds is captured
RECURSIVE CaptureBounds(_, _)
CaptureBounds(bounds, stmt) ==
    CASE stmt.k = "Let" -> CaptureBounds(CaptureBinds(bounds, stmt.binds), stmt.body)
      [] stmt.k \in {"For", "Realize", "PC"} -> CaptureBounds(bounds, stmt.body)
      [] stmt.k = "If" -> CaptureBounds(CaptureBounds(bounds, stmt.body), stmt.els)
      [] stmt.k = "Block" -> CaptureBounds(CaptureBounds(bounds, stmt.first), stmt.rest)
      [] OTHER -> bounds

\* the for_type of the loop kept as scheduled
RenamedForTypeKept(for_type, extent_val) == for_type

\* the for_type of a renamed loop: Serial when its extent is one
RenamedForType(for_type, extent_val) ==
    IF is_one(extent_val) THEN "Serial" ELSE for_type

\* the loop renamed and bound anew, the references to its old name left
RenameLoopOnly(op, min_val, extent_val, body) ==
    LET new_var == FusedName(op.name)
        for_type == RenamedForType(op.ft, extent_val)
        s0 == For(new_var, Var(Suffixed(new_var, "loop_min")),
                  Var(Suffixed(new_var, "loop_extent")), for_type, op.api, body)
    IN WrapLets(<<Binding(Suffixed(new_var, "loop_extent"), extent_val),
                  Binding(Suffixed(new_var, "loop_max"),
                          simplify(Bin("Sub", Bin("Add", min_val, extent_val), Const(1)))),
                  Binding(Suffixed(new_var, "loop_min"), min_val)>>, s0)

\* SubstituteBounds::visit(const For *), a loop whose min and extent are replaced
RenameLoop(op, min_val, extent_val, body) ==
    LET new_var == FusedName(op.name)
        for_type == RenamedForType(op.ft, extent_val)
        s0 == For(new_var, Var(Suffixed(new_var, "loop_min")),
                  Var(Suffixed(new_var, "loop_extent")), for_type, op.api, body)
        s3 == WrapLets(<<Binding(Suffixed(new_var, "loop_extent"), extent_val),
                         Binding(Suffixed(new_var, "loop_max"),
                                 simplify(Bin("Sub", Bin("Add", min_val, extent_val), Const(1)))),
                         Binding(Suffixed(new_var, "loop_min"), min_val)>>, s0)
    IN substitute(op.name :> Var(new_var), s3)

RECURSIVE SubstituteBounds(_, _)
SubstituteBounds(replacements, stmt) ==
    CASE stmt.k = "For" ->
           IF stmt.min.k = "Var" /\ stmt.extent.k = "Var"
              /\ stmt.min.n \in DOMAIN replacements
              /\ stmt.extent.n \in DOMAIN replacements
           THEN RenameLoop(stmt, replacements[stmt.min.n], replacements[stmt.extent.n],
                           SubstituteBounds(replacements, stmt.body))
           ELSE [stmt EXCEPT !.body = SubstituteBounds(replacements, stmt.body)]
      [] stmt.k = "Block" ->
           Block(SubstituteBounds(replacements, stmt.first),
                 SubstituteBounds(replacements, stmt.rest))
      [] stmt.k = "If" ->
           [stmt EXCEPT !.body = SubstituteBounds(replacements, stmt.body),
                        !.els = SubstituteBounds(replacements, stmt.els)]
      [] stmt.k = "Let" ->
           WrapLets(stmt.binds, SubstituteBounds(replacements, stmt.body))
      [] stmt.k \in {"Realize", "PC"} ->
           [stmt EXCEPT !.body = SubstituteBounds(replacements, stmt.body)]
      [] OTHER -> stmt

\* substitute_bounds(s, bounds, replacements): [s, bounds]
substitute_bounds(stmt, bounds, replacements) ==
    [s |-> SubstituteBounds(replacements, stmt), bounds |-> CaptureBounds(bounds, stmt)]

---------------------------------------------------------------------------
(* InjectGroupRealization: the fused-group injector                        *)
(*                                                                         *)
(* The maps and lists build_pipeline_group hands down by reference are one *)
(* record b = [produce, bounds, replacements, add_lets, err].              *)
(***************************************************************************)

\* the three names <var>.loop_min, .loop_max, .loop_extent
BoundNames(v) == {Suffixed(v, "loop_min"), Suffixed(v, "loop_max"), Suffixed(v, "loop_extent")}

\* the body of the loop over the fused dims i .. size-2 of one pair
RECURSIVE CollectFusedDims(_, _, _, _)
CollectFusedDims(pair, dims, i, b) ==
    IF i > Len(dims) - 1 THEN b
    ELSE LET var == LoopName(pair.func_2, pair.stage_2, dims[i].var)
             var_orig == LoopName(pair.func_1, pair.stage_1, dims[i].var)
             val == Var(var_orig)
             bounds1 == [n \in BoundNames(var) \cup BoundNames(var_orig) \cup DOMAIN b.bounds |->
                            IF n \in DOMAIN b.bounds THEN b.bounds[n] ELSE Undef]
             r1 == emplace(b.replacements, Suffixed(var, "loop_min"), val)
             r2 == emplace(r1, Suffixed(var, "loop_max"), val)
             r3 == emplace(r2, Suffixed(var, "loop_extent"), Const(1))
         IN CollectFusedDims(pair, dims, i + 1,
                             [b EXCEPT !.bounds = bounds1, !.replacements = r3])

\* the loop of build_produce_definition over def.schedule().fused_pairs();
\* b carries start_fuse as well
RECURSIVE CollectFusedPairs(_, _, _, _, _)
CollectFusedPairs(e, skip, dims, pairs, b) ==
    IF pairs = <<>> \/ b.err # "" THEN b
    ELSE LET pair == Head(pairs)
             it == FindDim(dims, pair.var_name)
         IN IF pair.func_2 \notin DOMAIN e \/ skip[pair.func_2]
            THEN CollectFusedPairs(e, skip, dims, Tail(pairs), b)
            ELSE IF it > Len(dims)
            THEN [b EXCEPT !.err = "internal: build_produce_definition: fused var not in dims"]
            ELSE CollectFusedPairs(e, skip, dims, Tail(pairs),
                    CollectFusedDims(pair, dims, it,
                        [b EXCEPT !.start_fuse = IF it < @ THEN it ELSE @]))

\* the start_fuse build_produce_definition hands to the loop-nest builder
\* (1-based; Len(dims) + 1 stands for dims.size(), no fused dim)
StartFuseOfLevel(skip, def) ==
    IF ~is_inline(def.fuse_level) /\ ~is_root(def.fuse_level) /\ ~skip[def.fuse_level.f]
    THEN FindDim(def.dims, def.fuse_level.v)
    ELSE Len(def.dims) + 1

\* build_produce_definition: the stage's loop nest without its outer lets in
\* b.stmt, the lets appended to b.add_lets
build_produce_definition(e, skip, fn, stage, def, b) ==
    LET dims == def.dims
        fused == ~is_inline(def.fuse_level) /\ ~is_root(def.fuse_level)
                 /\ ~skip[def.fuse_level.f]
        b1 == [b EXCEPT !.start_fuse = StartFuseOfLevel(skip, def),
                        !.err = IF fused /\ FindDim(dims, def.fuse_level.v) > Len(dims)
                                THEN "internal: build_produce_definition: fuse_level var not in dims"
                                ELSE @]
        b2 == CollectFusedPairs(e, skip, dims, def.fused_pairs, b1)
        produce == build_provide_loop_nest(fn.name, stage, b2.start_fuse, fn.args, def)
        p == PeelLets(produce)
    IN IF b2.err # "" THEN b2
       ELSE [b2 EXCEPT !.stmt = p.body, !.add_lets = @ \o p.lets]

\* produce = inject_stmt(produce, stmt, def.schedule().fuse_level().level)
InjectStage(level, b) ==
    IF b.err # "" THEN b
    ELSE LET r == inject_stmt(b.produce, b.stmt, level)
         IN [b EXCEPT !.produce = r.s, !.err = r.err]

\* InjectGroupRealization::build_produce: stage 0, then each update
RECURSIVE build_produce_stages(_, _, _, _, _)
build_produce_stages(e, skip, fn, stage, b) ==
    IF stage > NumUpdates(fn) \/ b.err # "" THEN b
    ELSE build_produce_stages(e, skip, fn, stage + 1,
            InjectStage(DefOf(fn, stage).fuse_level,
                        build_produce_definition(e, skip, fn, stage, DefOf(fn, stage), b)))

\* the loop of build_pipeline_group over the members that are not skipped
RECURSIVE build_produce_group(_, _, _, _, _)
build_produce_group(e, skip, group, i, b) ==
    IF i > Len(group) \/ b.err # "" THEN b
    ELSE IF skip[group[i]] THEN build_produce_group(e, skip, group, i + 1, b)
    ELSE build_produce_group(e, skip, group, i + 1,
                             build_produce_stages(e, skip, e[group[i]], 0, b))

\* "<func_2>.s<stage_2>.<var_name>", the key of collect_all_dependence's visited
PairKey(pair) == LoopName(pair.func_2, pair.stage_2, pair.var_name)

\* collect_all_dependence and collect_all_dependence_helper, whose loops over
\* the fused pairs are the same; d = [dependence, visited].  A pair whose
\* func_2 is not in env has no entry in skip either: whatever the read of
\* skip.find(...)->second yields, the pair is passed over.
RECURSIVE collect_all_dependence_pairs(_, _, _, _)
collect_all_dependence_pairs(e, skip, pairs, d) ==
    IF pairs = <<>> THEN d
    ELSE LET pair == Head(pairs)
         IN IF pair.func_2 \notin DOMAIN e \/ skip[pair.func_2] \/ PairKey(pair) \in d.visited
            THEN collect_all_dependence_pairs(e, skip, Tail(pairs), d)
            ELSE LET d1 == [dependence |-> Append(d.dependence, pair),
                            visited |-> d.visited \cup {PairKey(pair)}]
                     def_2 == DefOf(e[pair.func_2], pair.stage_2)
                     d2 == collect_all_dependence_pairs(e, skip, def_2.fused_pairs, d1)
                 IN collect_all_dependence_pairs(e, skip, Tail(pairs), d2)

collect_all_dependence(e, skip, def) ==
    collect_all_dependence_pairs(e, skip, def.fused_pairs,
                                 [dependence |-> <<>>, visited |-> {}]).dependence

\* replacements[var_1 + ".loop_min"] = simplify(min(min_1, min_2))
UnionMin(min_1, min_2) == simplify(Bin("Min", min_1, min_2))

\* the union that keeps the parent's loop_max
UnionMaxOfParent(max_1, max_2) == max_1

\* replacements[var_1 + ".loop_max"] = simplify(max(max_1, max_2))
UnionMax(max_1, max_2) == simplify(Bin("Max", max_1, max_2))

\* the union of the bounds of one dim; u = [replacements, err]
UnionDim(pair, prefix, dimvar, bounds, u) ==
    LET var_2 == LoopName(pair.func_2, pair.stage_2, dimvar)
        var_1 == LoopName(prefix.f, prefix.s, dimvar)
        mn == Suffixed(var_1, "loop_min")
        mx == Suffixed(var_1, "loop_max")
        ex == Suffixed(var_1, "loop_extent")
        have == mn \in DOMAIN u.replacements
        min_1 == IF have THEN u.replacements[mn] ELSE bounds[mn]
        max_1 == IF have THEN u.replacements[mx] ELSE bounds[mx]
        min_2 == bounds[Suffixed(var_2, "loop_min")]
        max_2 == bounds[Suffixed(var_2, "loop_max")]
        newmin == UnionMin(min_1, min_2)
        newmax == UnionMax(max_1, max_2)
        newext == simplify(Bin("Sub", Bin("Add", newmax, Const(1)), newmin))
    IN IF ~(BoundNames(var_2) \subseteq DOMAIN bounds)
       THEN [u EXCEPT !.err = "internal: union bound: child bound not collected"]
       ELSE IF ~(BoundNames(var_1) \subseteq DOMAIN bounds)
       THEN [u EXCEPT !.err = "internal: union bound: parent bound not collected"]
       ELSE IF ~defined(min_1) \/ ~defined(max_1) \/ ~defined(min_2) \/ ~defined(max_2)
       THEN [u EXCEPT !.err = "internal: union bound: bound never captured"]
       ELSE [u EXCEPT !.replacements = put(put(put(@, mn, newmin), mx, newmax), ex, newext)]

RECURSIVE UnionDims(_, _, _, _, _, _)
UnionDims(pair, prefix, dims, i, bounds, u) ==
    IF i > Len(dims) - 1 \/ u.err # "" THEN u
    ELSE UnionDims(pair, prefix, dims, i + 1, bounds,
                   UnionDim(pair, prefix, dims[i].var, bounds, u))

RECURSIVE UnionPairs(_, _, _, _, _, _)
UnionPairs(skip, prefix, dims, dependence, bounds, u) ==
    IF dependence = <<>> \/ u.err # "" THEN u
    ELSE LET pair == Head(dependence)
             it == FindDim(dims, pair.var_name)
         IN IF skip[pair.func_2]
            THEN UnionPairs(skip, prefix, dims, Tail(dependence), bounds, u)
            ELSE IF it > Len(dims)
            THEN [u EXCEPT !.err = "internal: union bound: fused var not in the parent's dims"]
            ELSE UnionPairs(skip, prefix, dims, Tail(dependence), bounds,
                            UnionDims(pair, prefix, dims, it, bounds, u))

\* the parent stage whose bounds are replaced by the union: f.name() + ".s0"
UnionParentStage(fn) == 0

\* replace_parent_bound_with_union_bound: [s, err]
replace_parent_bound_with_union_bound(e, skip, fn, produce, bounds) ==
    LET stage == UnionParentStage(fn)
        prefix == [f |-> fn.name, s |-> stage]
        def == DefOf(fn, stage)
        dependence == collect_all_dependence(e, skip, def)
        u == UnionPairs(skip, prefix, def.dims, dependence, bounds,
                        [replacements |-> EmptyMap, err |-> ""])
    IN [s |-> IF u.err = "" THEN substitute_bounds(produce, EmptyMap, u.replacements).s
              ELSE produce,
        err |-> u.err]

\* the skip map of build_pipeline_group
SkipMap(group, is_output_list, stmt) ==
    [f \in {group[i] : i \in 1..Len(group)} |->
        \A i \in 1..Len(group) :
            group[i] = f => ~(function_is_used_in_stmt(f, stmt) \/ is_output_list[i])]

\* for (i = group.size(); i > 0; --i) if (!skip[...]) st = ProducerConsumer::make(...)
RECURSIVE WrapProducerConsumer(_, _, _, _, _)
WrapProducerConsumer(skip, group, i, is_producer, stmt) ==
    IF i < 1 THEN stmt
    ELSE WrapProducerConsumer(skip, group, i - 1, is_producer,
            IF ~skip[group[i]] THEN ProducerConsumer(group[i], is_producer, stmt) ELSE stmt)

\* the first function of the group that is not skipped
RECURSIVE ParentIndex(_, _, _)
ParentIndex(skip, group, i) ==
    IF i > Len(group) THEN 0
    ELSE IF ~skip[group[i]] THEN i ELSE ParentIndex(skip, group, i + 1)

\* the end of build_pipeline_group: the producer and consumer nodes
GroupBlock(skip, group, stmt, un) ==
    IF un.err # "" THEN [s |-> stmt, err |-> un.err]
    ELSE [s |-> Block(WrapProducerConsumer(skip, group, Len(group), TRUE, un.s),
                      WrapProducerConsumer(skip, group, Len(group), FALSE, stmt)),
          err |-> ""]

\* the loops b of the group's stages: the lets rewrapped, the bounds of the
\* child loops substituted, then the parent's replaced by the union
GroupProduce(e, skip, group, stmt, b) ==
    IF b.err # "" THEN [s |-> stmt, err |-> b.err]
    ELSE LET sb == substitute_bounds(WrapLets(b.add_lets, b.produce), b.bounds, b.replacements)
         IN GroupBlock(skip, group, stmt,
                replace_parent_bound_with_union_bound(e, skip,
                    e[group[ParentIndex(skip, group, 1)]], sb.s, sb.bounds))

\* a group whose parent is taken as never skipped
ParentKept(skip, group) == FALSE

\* user_assert(!skip[group[0].name()])
ParentSkipped(skip, group) == skip[group[1]]

GroupWithSkip(e, skip, group, stmt) ==
    IF \A f \in DOMAIN skip : skip[f] THEN [s |-> stmt, err |-> ""]
    ELSE IF ParentSkipped(skip, group)
    THEN [s |-> stmt, err |-> "user: the parent function of the fused group is not used"]
    ELSE GroupProduce(e, skip, group, stmt,
            build_produce_group(e, skip, group, 1,
                [produce |-> Undef, stmt |-> Undef, start_fuse |-> 0, bounds |-> EmptyMap,
                 replacements |-> EmptyMap, add_lets |-> <<>>, err |-> ""]))

\* build_pipeline_group: [s, err]
build_pipeline_group(e, group, is_output_list, stmt) ==
    GroupWithSkip(e, SkipMap(group, is_output_list, stmt), group, stmt)

\* the members wrapped first to last, the first innermost
RECURSIVE build_realize_group_forward(_, _, _, _, _)
build_realize_group_forward(e, group, is_output_list, i, stmt) ==
    IF i < 1 THEN stmt
    ELSE LET j == Len(group) + 1 - i
         IN build_realize_group_forward(e, group, is_output_list, i - 1,
                IF function_is_used_in_stmt(group[j], stmt) \/ is_output_list[j]
                THEN build_realize(stmt, e[group[j]], is_output_list[j]) ELSE stmt)

\* build_realize_group
RECURSIVE build_realize_group(_, _, _, _, _)
build_realize_group(e, group, is_output_list, i, stmt) ==
    IF i < 1 THEN stmt
    ELSE build_realize_group(e, group, is_output_list, i - 1,
            IF function_is_used_in_stmt(group[i], stmt) \/ is_output_list[i]
            THEN build_realize(stmt, e[group[i]], is_output_list[i]) ELSE stmt)

\* if (store_level.match(for_loop->name)) { ... }; p the body at the compute level
GroupAtStore(e, group, is_output_list, name, r, p) ==
    IF p.err # "" THEN [r EXCEPT !.err = p.err]
    ELSE IF match(e[group[1]].store_level, name)
            /\ ~(r.fc \/ match(e[group[1]].compute_level, name))
    THEN [r EXCEPT !.err = "internal: compute level not found within the store level"]
    ELSE [s |-> IF match(e[group[1]].store_level, name)
                THEN build_realize_group(e, group, is_output_list, Len(group), p.s)
                ELSE p.s,
          fc |-> r.fc \/ match(e[group[1]].compute_level, name),
          fs |-> r.fs \/ match(e[group[1]].store_level, name), err |-> ""]

\* what InjectGroupRealization::visit(const For *) does to the mutated body
InjectGroupAtLoop(e, group, is_output_list, name, r) ==
    IF r.err # "" THEN r
    ELSE GroupAtStore(e, group, is_output_list, name, r,
            IF match(e[group[1]].compute_level, name)
            THEN build_pipeline_group(e, group, is_output_list, r.s)
            ELSE [s |-> r.s, err |-> ""])

RECURSIVE InjectGroupRealization(_, _, _, _, _)
InjectGroupRealization(e, group, is_output_list, st, stmt) ==
    IF st.err # "" \/ ~defined(stmt) THEN MutResult(stmt, st)
    ELSE CASE stmt.k = "For" ->
                LET r == InjectGroupRealization(e, group, is_output_list, st,
                                                PeelLets(stmt.body).body)
                IN IF r.err # "" THEN r
                   ELSE ReinstateLets(stmt, PeelLets(stmt.body).lets,
                                      InjectGroupAtLoop(e, group, is_output_list, stmt.name, r))
           [] stmt.k = "Block" ->
                LET r1 == InjectGroupRealization(e, group, is_output_list, st, stmt.first)
                    r2 == InjectGroupRealization(e, group, is_output_list, StateOf(r1), stmt.rest)
                IN [r2 EXCEPT !.s = Block(r1.s, r2.s)]
           [] stmt.k = "If" ->
                LET r1 == InjectGroupRealization(e, group, is_output_list, st, stmt.body)
                    r2 == InjectGroupRealization(e, group, is_output_list, StateOf(r1), stmt.els)
                IN [r2 EXCEPT !.s = [stmt EXCEPT !.body = r1.s, !.els = r2.s]]
           [] stmt.k = "Let" ->
                LET r == InjectGroupRealization(e, group, is_output_list, st, stmt.body)
                IN [r EXCEPT !.s = WrapLets(stmt.binds, r.s)]
           [] stmt.k \in {"Realize", "PC"} ->
                LET r == InjectGroupRealization(e, group, is_output_list, st, stmt.body)
                IN [r EXCEPT !.s = [stmt EXCEPT !.body = r.s]]
           [] OTHER -> MutResult(stmt, st)

---------------------------------------------------------------------------
(* validate_fused_groups_schedule *)

\* Dim's comparison in "dims_1[start_fuse_1 + i] != dims_2[start_fuse_2 + i]"
DimEq(d1, d2) == d1 = d2

\* the checks of validate_fused_group_schedule_helper on one pair: "" or the
\* user error.  The stages of one function that are fused here have pure
\* dims only, for which the comparison of the split histories is passed over.
\* the comparison of the first fused dim alone
FirstDimDiffers(dims_1, start_fuse_1, dims_2, start_fuse_2, n_fused) ==
    n_fused > 0 /\ ~DimEq(dims_1[start_fuse_1], dims_2[start_fuse_2])

\* for (i = 0; i < n_fused; ++i) if (dims_1[start_fuse_1 + i] != dims_2[start_fuse_2 + i])
SomeDimDiffers(dims_1, start_fuse_1, dims_2, start_fuse_2, n_fused) ==
    \E i \in 0..(n_fused - 1) : ~DimEq(dims_1[start_fuse_1 + i], dims_2[start_fuse_2 + i])

validate_fused_pair(e, p, def_1) ==
    LET func_1 == e[p.func_1]
        func_2 == e[p.func_2]
        def_2 == DefOf(func_2, p.stage_2)
        dims_1 == def_1.dims
        dims_2 == def_2.dims
        start_fuse_1 == FindDim(dims_1, p.var_name)
        start_fuse_2 == FindDim(dims_2, p.var_name)
        n_fused == Len(dims_1) - start_fuse_1
    IN IF p.func_2 \notin DOMAIN e THEN ""
       ELSE IF DefOf(func_2, 0).specializations # <<>>
       THEN "user: compute_with: func_2 must not have any specializations"
       ELSE IF is_inline(func_1.compute_level) THEN "user: compute_with: func_1 is scheduled inline"
       ELSE IF is_inline(func_2.compute_level) THEN "user: compute_with: func_2 is scheduled inline"
       ELSE IF has_extern_definition(func_1) THEN "user: compute_with: func_1 has extern definition"
       ELSE IF has_extern_definition(func_2) THEN "user: compute_with: func_2 has extern definition"
       ELSE IF p.func_1 # p.func_2 /\ ~match_level(func_1.compute_level, func_2.compute_level)
       THEN "user: compute_with: the compute levels do not match"
       ELSE IF start_fuse_1 > Len(dims_1) THEN "user: compute_with: cannot find var in func_1"
       ELSE IF start_fuse_2 > Len(dims_2) THEN "user: compute_with: cannot find var in func_2"
       ELSE IF n_fused # Len(dims_2) - start_fuse_2
       THEN "user: compute_with: number of fused dims do not match"
       ELSE IF SomeDimDiffers(dims_1, start_fuse_1, dims_2, start_fuse_2, n_fused)
       THEN "user: compute_with: dims do not match"
       ELSE ""

RECURSIVE validate_fused_group_schedule_helper(_, _, _)
validate_fused_group_schedule_helper(e, pairs, def_1) ==
    IF pairs = <<>> THEN ""
    ELSE LET r == validate_fused_pair(e, Head(pairs), def_1)
         IN IF r # "" THEN r ELSE validate_fused_group_schedule_helper(e, Tail(pairs), def_1)

\* the stages of one function, 0 first
RECURSIVE validate_fused_stages(_, _, _)
validate_fused_stages(e, fn, stage) ==
    IF stage > NumUpdates(fn) THEN ""
    ELSE LET def == DefOf(fn, stage)
             r == validate_fused_group_schedule_helper(e, def.fused_pairs, def)
         IN IF r # "" THEN r ELSE validate_fused_stages(e, fn, stage + 1)

\* the functions of all the groups, in order
RECURSIVE Flatten(_)
Flatten(groups) == IF groups = <<>> THEN <<>> ELSE Head(groups) \o Flatten(Tail(groups))

RECURSIVE validate_fused_functions(_, _)
validate_fused_functions(e, fns) ==
    IF fns = <<>> THEN ""
    ELSE LET r == validate_fused_stages(e, e[Head(fns)], 0)
         IN IF r # "" THEN r ELSE validate_fused_functions(e, Tail(fns))

validate_fused_groups_schedule(groups, e) == validate_fused_functions(e, Flatten(groups))

---------------------------------------------------------------------------
(* inline_function and RemoveLoopsOverOutermost *)

\* inline_function(s, f): every call of f is replaced by f's value, so that
\* the statement calls what f's definition calls
InlineCalls(calls, fn) ==
    IF fn.name \in calls THEN (calls \ {fn.name}) \cup DefOf(fn, 0).calls ELSE calls

RECURSIVE inline_function(_, _)
inline_function(stmt, fn) ==
    CASE stmt.k = "Provide" -> [stmt EXCEPT !.calls = InlineCalls(@, fn)]
      [] stmt.k = "If" ->
           [stmt EXCEPT !.cond = IF @.k = "Pred"
                                 THEN [@ EXCEPT !.calls = InlineCalls(@, fn)] ELSE @,
                        !.body = inline_function(@, fn),
                        !.els = inline_function(@, fn)]
      [] stmt.k = "Block" ->
           Block(inline_function(stmt.first, fn), inline_function(stmt.rest, fn))
      [] stmt.k \in {"For", "Let", "Realize", "PC"} ->
           [stmt EXCEPT !.body = inline_function(@, fn)]
      [] OTHER -> stmt

\* the test of RemoveLoopsOverOutermost::visit(const For *)
RemovableLoop(op) ==
    op.name.v = Outermost /\ op.name.sfx = "" /\ is_one(simplify(op.extent)) /\ op.api = "None"

\* the same test without its loop_max case
RemovableLetButMax(op) ==
    op.name.v = Outermost /\ op.name.sfx \in {"loop_extent", "loop_min"}

\* the test of RemoveLoopsOverOutermost::visit(const LetStmt *)
RemovableLet(op) ==
    op.name.v = Outermost /\ op.name.sfx \in {"loop_extent", "loop_min", "loop_max"}

\* the bindings of a chain that RemoveLoopsOverOutermost drops
RemovableLets(binds) == {i \in 1..Len(binds) : RemovableLet(binds[i])}

\* the values substituted for the dropped bindings before binding p: each
\* name stands for the simplified value of its latest dropped binding
DroppedAt(binds, p) ==
    LET R == {i \in RemovableLets(binds) : i < p}
        last(n) == CHOOSE i \in R : binds[i].name = n
                                    /\ \A j \in R : binds[j].name = n => j <= i
    IN [n \in {binds[i].name : i \in R} |-> simplify(binds[last(n)].value)]

\* no dropped binding's value mentions a dropped name, so that the
\* substitutions made one after the other do not act on each other
DroppedAreClosed(binds) ==
    \A i \in RemovableLets(binds) :
        ExprVars(binds[i].value) \cap {binds[j].name : j \in RemovableLets(binds)} = {}

\* RemoveLoopsOverOutermost::visit(const LetStmt *) down a chain of LetStmts,
\* from binding i on: a binding over an outermost dummy dimension is dropped
\* and its simplified value substituted in what it encloses
RECURSIVE RemoveLetsFrom(_, _, _)
RemoveLetsFrom(binds, i, body) ==
    IF i > Len(binds) THEN [lets |-> binds, body |-> body]
    ELSE IF RemovableLet(binds[i])
    THEN LET under == substitute(binds[i].name :> simplify(binds[i].value),
                                 WrapLets(SubSeq(binds, i + 1, Len(binds)), body))
         IN RemoveLetsFrom(SubSeq(binds, 1, i - 1) \o PeelLets(under).lets, i,
                           PeelLets(under).body)
    ELSE RemoveLetsFrom(binds, i + 1, body)

\* the same over the whole chain; when the dropped values are closed the
\* substitutions are made in one pass
RemoveLets(binds, body) ==
    IF DroppedAreClosed(binds)
    THEN LET kept == SelectSeq([i \in 1..Len(binds) |-> i],
                               LAMBDA i : ~RemovableLet(binds[i]))
         IN [lets |-> [j \in 1..Len(kept) |->
                          [binds[kept[j]] EXCEPT
                              !.value = SubstExpr(DroppedAt(binds, kept[j]), @)]],
             body |-> substitute(DroppedAt(binds, Len(binds) + 1), body)]
    ELSE RemoveLetsFrom(binds, 1, body)

RECURSIVE RemoveLoopsOverOutermost(_)
RemoveLoopsOverOutermost(stmt) ==
    CASE stmt.k = "For" ->
           IF RemovableLoop(stmt)
           THEN RemoveLoopsOverOutermost(substitute(stmt.name :> stmt.min, stmt.body))
           ELSE [stmt EXCEPT !.body = RemoveLoopsOverOutermost(@)]
      [] stmt.k = "Let" ->
           LET r == RemoveLets(stmt.binds, stmt.body)
           IN WrapLets(r.lets, RemoveLoopsOverOutermost(r.body))
      [] stmt.k = "Block" ->
           Block(RemoveLoopsOverOutermost(stmt.first), RemoveLoopsOverOutermost(stmt.rest))
      [] stmt.k = "If" ->
           [stmt EXCEPT !.body = RemoveLoopsOverOutermost(@),
                        !.els = RemoveLoopsOverOutermost(@)]
      [] stmt.k \in {"Realize", "PC"} -> [stmt EXCEPT !.body = RemoveLoopsOverOutermost(@)]
      [] OTHER -> stmt

---------------------------------------------------------------------------
(* The pipelines schedule_functions is given *)

\* the largest number of update stages of a function
MaxUpdates == 1

ForTypes == {"Serial", "Parallel"}

Def(dims, fuse_level, fused_pairs, calls, preds) ==
    [dims |-> dims, fuse_level |-> fuse_level, fused_pairs |-> fused_pairs,
     calls |-> calls, preds |-> preds, specializations |-> <<>>, lets |-> <<>>]
Function(name, args, defs, compute_level, store_level) ==
    [name |-> name, args |-> args, defs |-> defs,
     compute_level |-> compute_level, store_level |-> store_level, bounds |-> <<>>,
     extern |-> FALSE]
\* the condition of the i-th specialization, a scalar parameter of the pipeline
Param(i) == Var([f |-> "", s |-> i, v |-> "param", fu |-> FALSE, sfx |-> ""])

\* Stage::specialize: a copy of the definition with its own schedule
Specialize(def, alts) ==
    [def EXCEPT !.specializations =
        [i \in 1..Len(alts) |-> Specialization(Param(i), alts[i])]]

Pipeline(e, outs, groups) ==
    [env |-> e, outputs |-> outs, fused_groups |-> groups, target |-> {}]

\* A consumer "out" over x, y with nO updates and a producer "f" over x with
\* nF updates.  uses: the stages of out whose value calls f; pred: the last
\* stage of out, an update, has a predicate that calls f.
SinglePipeline(p) ==
    LET out == Function("out", <<"x", "y">>,
                   [i \in 1..(p.nO + 1) |->
                       Def(<<Dim("x", IF i = 1 THEN p.ftx0 ELSE p.ftxU, "None"),
                             Dim("y", p.fty, "None"),
                             Dim(Outermost, "Serial", p.apiO)>>,
                           Inline, <<>>,
                           (IF (i - 1) \in p.uses THEN {"f"} ELSE {})
                               \cup (IF i > 1 THEN {"out"} ELSE {}),
                           IF p.pred /\ i = p.nO + 1
                           THEN <<Pred({"x"}, {"f"}, TRUE)>> ELSE <<>>)],
                   p.oc, p.os)
        f == Function("f", <<"x">>,
                 [i \in 1..(p.nF + 1) |->
                     Def(<<Dim("x", "Serial", "None"), Dim(Outermost, "Serial", "None")>>,
                         Inline, <<>>, IF i > 1 THEN {"f"} ELSE {}, <<>>)],
                 p.fc, p.fs)
    IN Pipeline(("out" :> out) @@ ("f" :> f), {"out"}, <<<<"f">>, <<"out">>>>)

LevelsOfF == {Inline, Root, Level("out", "x"), Level("out", "y")}

SingleParams ==
    {p \in [nO : 0..MaxUpdates, nF : 0..MaxUpdates, ftx0 : ForTypes, ftxU : ForTypes,
            fty : ForTypes, uses : SUBSET (0..MaxUpdates), pred : BOOLEAN,
            fc : LevelsOfF, fs : LevelsOfF, oc : {Root}, os : {Root}, apiO : {"None"}] :
        /\ p.uses \subseteq 0..p.nO
        /\ (p.pred => p.nO >= 1)
        /\ (p.nO = 0 => p.ftxU = "Serial")}

\* the schedules of the output and the device api of its outermost dim
OutputParams ==
    {p \in [nO : {0}, nF : {0}, ftx0 : {"Serial"}, ftxU : {"Serial"},
            fty : {"Serial"}, uses : {{0}}, pred : {FALSE},
            fc : {Root, Level("out", "x")}, fs : {Root}, oc : {Root, Inline, Level("out", "x")},
            os : {Root, Inline}, apiO : {"None", "GPU"}] : TRUE}

\* The stage of function fname that a compute_with schedule fuses (the child
\* of a pair) has the fuse level of its pair; the stage fused into lists the pair.
FusedPairsOf(p) ==
    (IF p.cross THEN {FusedPair("f", p.sp, "g", p.sc, p.v)} ELSE {})
        \cup (IF p.extra = "selfF" THEN {FusedPair("f", 0, "f", 1, p.v2)} ELSE {})
        \cup (IF p.extra = "chainG" THEN {FusedPair("g", 0, "g", 1, p.v2)} ELSE {})

RECURSIVE SeqOfSet(_)
SeqOfSet(S) == IF S = {} THEN <<>> ELSE LET x == CHOOSE y \in S : TRUE
                                        IN <<x>> \o SeqOfSet(S \ {x})

FuseLevelOf(p, fname, stage) ==
    IF \E q \in FusedPairsOf(p) : q.func_2 = fname /\ q.stage_2 = stage
    THEN LET q == CHOOSE q \in FusedPairsOf(p) : q.func_2 = fname /\ q.stage_2 = stage
         IN Level(q.func_1, q.var_name)
    ELSE Inline

\* the pure vars of a fused function, innermost first: x or x, y; those of g
\* may differ from those of f in their order, their names or their number
FusedVars(p, fname) ==
    IF fname = "g" /\ p.gvars # "same"
    THEN CASE p.gvars = "swapped" -> <<"y", "x">>
           [] p.gvars = "renamed" -> <<"x", "z">>
           [] p.gvars = "short" -> <<"x">>
    ELSE IF p.nd = 1 THEN <<"x">> ELSE <<"x", "y">>

FusedDims(p, fname, ft) ==
    LET vs == FusedVars(p, fname)
    IN [i \in 1..Len(vs) |-> Dim(vs[i], IF i = 1 THEN ft ELSE "Serial", "None")]
          \o <<Dim(Outermost, "Serial", "None")>>

FusedFunction(p, fname, n, ft, compute_level, store_level) ==
    Function(fname, FusedVars(p, fname),
        [i \in 1..(n + 1) |->
            Def(FusedDims(p, fname, ft), FuseLevelOf(p, fname, i - 1),
                SeqOfSet({q \in FusedPairsOf(p) : q.func_1 = fname /\ q.stage_1 = i - 1}),
                IF i > 1 THEN {fname} ELSE {}, <<>>)],
        compute_level, store_level)

\* what the schedule adds to the fused functions: a specialization of a
\* stage of the child g or of the parent f, or an extern definition
Marks == {"none", "specialized g.s0", "specialized g.s1", "specialized f.s0", "extern f", "extern g"}

Marked(p, fn) ==
    CASE p.mark = "specialized " \o fn.name \o ".s0" ->
            [fn EXCEPT !.defs[1] = Specialize(@, <<@>>)]
      [] p.mark = "specialized " \o fn.name \o ".s1" ->
            [fn EXCEPT !.defs[2] = Specialize(@, <<@>>)]
      [] p.mark = "extern " \o fn.name -> [fn EXCEPT !.extern = TRUE]
      [] OTHER -> fn

\* Producers "f" and "g" with stages fused by compute_with, and the consumer "out"
FusedPipeline(p) ==
    LET out == Function("out", <<"x">>,
                   [i \in 1..(p.nO + 1) |->
                       Def(<<Dim("x", "Serial", "None"), Dim(Outermost, "Serial", "None")>>,
                           Inline, <<>>,
                           IF i = 1 THEN p.uses ELSE p.usesU \cup {"out"}, <<>>)],
                   Root, Root)
    IN Pipeline(("out" :> out)
                  @@ ("f" :> Marked(p, FusedFunction(p, "f", p.nF, p.ftf, p.fc, p.fs)))
                  @@ ("g" :> Marked(p, FusedFunction(p, "g", p.nG, p.ftg, p.gc, p.gc))),
                {"out"} \cup p.outs,
                IF p.cross THEN <<<<"f", "g">>, <<"out">>>>
                ELSE <<<<"g">>, <<"f">>, <<"out">>>>)

FusedLevels ==
    {[fc |-> Root, gc |-> Root, fs |-> Root],
     [fc |-> Level("out", "x"), gc |-> Level("out", "x"), fs |-> Level("out", "x")],
     [fc |-> Level("out", "x"), gc |-> Level("out", "x"), fs |-> Root],
     [fc |-> Root, gc |-> Level("out", "x"), fs |-> Root],
     [fc |-> Root, gc |-> Inline, fs |-> Root]}

\* the schedules of f and g and what out calls
FusedBase ==
    {p \in [nd : 1..2, nF : 0..MaxUpdates, nG : 0..MaxUpdates, cross : BOOLEAN,
            sp : 0..MaxUpdates, sc : 0..MaxUpdates, v : {"x", "y"},
            extra : {"none", "selfF", "chainG"}, v2 : {"x", "y"},
            ftf : ForTypes, ftg : ForTypes, fc : LevelsOfF, gc : LevelsOfF, fs : LevelsOfF,
            uses : SUBSET {"f", "g"}] :
        /\ [fc |-> p.fc, gc |-> p.gc, fs |-> p.fs] \in FusedLevels
        /\ p.sp <= p.nF /\ p.sc <= p.nG
        /\ (p.nd = 1 => p.v2 = "x")
        /\ (p.nd = 1 /\ p.v = "y" =>
               p.cross /\ p.extra = "none" /\ p.uses = {"f", "g"}
               /\ p.fc = p.gc /\ p.fc = p.fs /\ p.ftf = p.ftg)
        /\ (p.nd = 2 => p.extra = "none")
        /\ (~p.cross => p.sp = 0 /\ p.sc = 0 /\ p.v = "x")
        /\ (p.extra = "none" => p.v2 = "x")
        /\ (p.extra = "selfF" => p.nF >= 1)
        /\ (p.extra = "chainG" => p.nG >= 1 /\ ~(p.cross /\ p.sc = 1))
        /\ (p.cross \/ p.extra # "none")
        /\ ~(p.ftf = "Serial" /\ p.ftg = "Parallel")}

\* p with a mark, the vars of g, the updates of out and what they call, and
\* the members that are outputs
With(p, mark, gvars, nO, usesU, outs) ==
    p @@ [mark |-> mark, gvars |-> gvars, nO |-> nO, usesU |-> usesU, outs |-> outs]

FusedParams ==
    {With(p, "none", "same", 0, {}, {}) : p \in FusedBase}
        \cup {With(p, mark, "same", 0, {}, {}) :
                 p \in {q \in FusedBase : /\ q.cross /\ q.nd = 1 /\ q.v = "x"
                                          /\ q.extra = "none" /\ q.ftf = q.ftg
                                          /\ q.uses = {"f", "g"} /\ q.nG >= 1},
                 mark \in Marks \ {"none"}}
        \cup {With(p, "none", gvars, 0, {}, {}) :
                 p \in {q \in FusedBase : /\ q.cross /\ q.nd = 2 /\ q.uses = {"f", "g"}
                                          /\ q.fc = q.gc /\ q.fc = q.fs
                                          /\ q.ftf = "Serial" /\ q.ftg = "Serial"},
                 gvars \in {"swapped", "renamed", "short"}}
        \cup {With(p, "none", "same", 1, usesU, outs) :
                 p \in {q \in FusedBase : /\ q.cross /\ q.nd = 1 /\ q.v = "x"
                                          /\ q.extra = "none" /\ q.nF = 0 /\ q.nG = 0
                                          /\ q.ftf = "Serial" /\ q.ftg = "Serial"},
                 usesU \in SUBSET {"f", "g"}, outs \in {{}}}
        \cup {With(p, "none", "same", 0, {}, outs) :
                 p \in {q \in FusedBase : /\ q.cross /\ q.nd = 1 /\ q.v = "x"
                                          /\ q.extra = "none" /\ q.nF = 0 /\ q.nG = 0
                                          /\ q.ftf = "Serial" /\ q.ftg = "Serial"
                                          /\ q.fs = Root},
                 outs \in (SUBSET {"f", "g"}) \ {{}}}

\* The pipeline of SinglePipeline with explicit bounds on f and on the output,
\* for a target with or without NoAsserts.
BoundedPipeline(p) ==
    LET q == SinglePipeline(p.single)
    IN [q EXCEPT !.env["f"].bounds = p.fb, !.env["out"].bounds = p.ob, !.target = p.target]

\* f.bound(x, min, extent), f.bound_extent(x, extent), f.align_bounds(x, modulus)
BoundsOfF ==
    LET full == ScheduleBound("x", Const(0), Const(2), Undef)
        extent_only == ScheduleBound("x", Undef, Const(1), Undef)
        modulus_only == ScheduleBound("x", Undef, Undef, Const(2))
        aligned == ScheduleBound("x", Const(1), Const(1), Const(2))
    IN {<<full>>, <<extent_only>>, <<modulus_only>>, <<aligned>>,
        <<full, modulus_only>>, <<full, full>>, <<modulus_only, extent_only>>}

BoundedParams ==
    [single : {p \in SingleParams :
                  /\ p.nO = 0 /\ p.ftx0 = "Serial" /\ p.fty = "Serial"
                  /\ p.uses = {0} /\ ~p.pred
                  /\ <<p.fs, p.fc>> \in {<<Root, Root>>, <<Inline, Inline>>,
                                        <<Level("out", "x"), Level("out", "x")>>,
                                        <<Root, Level("out", "x")>>,
                                        <<Level("out", "y"), Level("out", "x")>>,
                                        <<Level("out", "x"), Level("out", "y")>>}},
     fb : BoundsOfF,
     ob : {<<>>, <<ScheduleBound("y", Const(0), Const(2), Undef)>>},
     target : {{}, {"NoAsserts"}}]

\* The pipeline of SinglePipeline with f.specialize(param) on the pure
\* definition of f.
SpecializedPipeline(p) ==
    [SinglePipeline(p) EXCEPT !.env["f"].defs[1] = Specialize(@, <<@>>)]

SpecializedParams ==
    {p \in SingleParams :
        /\ p.nO = 0 /\ p.ftx0 = "Serial" /\ p.fty = "Serial" /\ p.uses = {0} /\ ~p.pred
        /\ <<p.fs, p.fc>> \in {<<Root, Root>>, <<Inline, Inline>>,
                              <<Level("out", "x"), Level("out", "x")>>}}

\* out.update(0).reorder(y, x): the loops of the update over x and y change
\* places
ReorderedPipeline(p) ==
    LET q == SinglePipeline(p)
        dims == q.env["out"].defs[2].dims
    IN [q EXCEPT !.env["out"].defs[2].dims = <<dims[2], dims[1], dims[3]>>]

ReorderedParams ==
    {p \in SingleParams :
        /\ p.nO = 1 /\ p.nF = 0 /\ p.uses # {} /\ ~p.pred
        /\ p.ftx0 = "Serial" /\ p.ftxU = "Serial" /\ p.fty = "Serial"}

\* f with a pure definition and two updates, f.update(1).compute_with(
\* f.update(0), x): the pair is on the schedule of update 0, stage 1. With
\* p.cross, g.compute_with(f, x) as well.
ThreeStagePipeline(p) ==
    LET dims(ft) == <<Dim("x", ft, "None"), Dim(Outermost, "Serial", "None")>>
        f == Function("f", <<"x">>,
                 <<Def(dims(p.ft), Inline,
                       IF p.cross THEN <<FusedPair("f", 0, "g", 0, "x")>> ELSE <<>>, {}, <<>>),
                   Def(dims("Serial"), Inline, <<FusedPair("f", 1, "f", 2, "x")>>, {"f"}, <<>>),
                   Def(dims("Serial"), Level("f", "x"), <<>>, {"f"}, <<>>)>>,
                 p.fc, p.fc)
        g == Function("g", <<"x">>,
                 <<Def(dims("Serial"), IF p.cross THEN Level("f", "x") ELSE Inline,
                       <<>>, {}, <<>>)>>,
                 IF p.cross THEN p.fc ELSE Root, IF p.cross THEN p.fc ELSE Root)
        out == Function("out", <<"x">>,
                   <<Def(dims("Serial"), Inline, <<>>, {"f", "g"}, <<>>)>>, Root, Root)
    IN Pipeline(("out" :> out) @@ ("f" :> f) @@ ("g" :> g), {"out"},
                IF p.cross THEN <<<<"f", "g">>, <<"out">>>>
                ELSE <<<<"g">>, <<"f">>, <<"out">>>>)

ThreeStageParams ==
    [cross : BOOLEAN, ft : ForTypes, fc : {Root, Level("out", "x")}]

\* g.compute_with(f, x), and h, called by g alone, computed and stored at a
\* loop of f or of g
NestedPipeline(p) ==
    LET dims(ft) == <<Dim("x", ft, "None"), Dim(Outermost, "Serial", "None")>>
        f == Function("f", <<"x">>,
                 <<Def(dims(p.ft), Inline, <<FusedPair("f", 0, "g", 0, "x")>>, {}, <<>>)>>,
                 Root, Root)
        g == Function("g", <<"x">>,
                 <<Def(dims("Serial"), Level("f", "x"), <<>>, {"h"}, <<>>)>>, Root, Root)
        h == Function("h", <<"x">>,
                 <<Def(dims("Serial"), Inline, <<>>, {}, <<>>)>>, p.hc, p.hs)
        out == Function("out", <<"x">>,
                   <<Def(dims("Serial"), Inline, <<>>, {"f", "g"}, <<>>)>>, Root, Root)
    IN Pipeline(("out" :> out) @@ ("f" :> f) @@ ("g" :> g) @@ ("h" :> h), {"out"},
                <<<<"h">>, <<"f", "g">>, <<"out">>>>)

NestedParams ==
    [ft : ForTypes, hc : {Root, Level("f", "x"), Level("g", "x")},
     hs : {Root, Level("f", "x"), Level("g", "x")}]

\* A chain of compute_with over x and y: g.compute_with(f, vg) and
\* h.compute_with(g, vh), the three computed and stored at the same level
ChainPipeline(p) ==
    LET dims == <<Dim("x", p.ft, "None"), Dim("y", "Serial", "None"),
                  Dim(Outermost, "Serial", "None")>>
        f == Function("f", <<"x", "y">>,
                 <<Def(dims, Inline, <<FusedPair("f", 0, "g", 0, p.vg)>>, {}, <<>>)>>,
                 p.lv, p.lv)
        g == Function("g", <<"x", "y">>,
                 <<Def(dims, Level("f", p.vg), <<FusedPair("g", 0, "h", 0, p.vh)>>, {}, <<>>)>>,
                 p.lv, p.lv)
        h == Function("h", <<"x", "y">>,
                 <<Def(dims, Level("g", p.vh), <<>>, {}, <<>>)>>, p.lv, p.lv)
        out == Function("out", <<"x">>,
                   <<Def(<<Dim("x", "Serial", "None"), Dim(Outermost, "Serial", "None")>>,
                         Inline, <<>>, {"f", "g", "h"}, <<>>)>>, Root, Root)
    IN Pipeline(("out" :> out) @@ ("f" :> f) @@ ("g" :> g) @@ ("h" :> h), {"out"},
                <<<<"f", "g", "h">>, <<"out">>>>)

ChainParams ==
    [vg : {"x", "y"}, vh : {"x", "y"}, ft : ForTypes, lv : {Root, Level("out", "x")}]

Pipelines ==
    {SinglePipeline(p) : p \in SingleParams \cup OutputParams}
        \cup {ChainPipeline(p) : p \in ChainParams}
        \cup {NestedPipeline(p) : p \in NestedParams}
        \cup {ThreeStagePipeline(p) : p \in ThreeStageParams}
        \cup {ReorderedPipeline(p) : p \in ReorderedParams}
        \cup {FusedPipeline(p) : p \in FusedParams}
        \cup {BoundedPipeline(p) : p \in BoundedParams}
        \cup {SpecializedPipeline(p) : p \in SpecializedParams}

---------------------------------------------------------------------------
(* schedule_functions *)

\* the group the loop of schedule_functions is at, and its output flags
Group == fused_groups[gi]
IsOutputList == [j \in 1..Len(Group) |-> Group[j] \in outputs]

\* relevant_fused_pair
relevant_fused_pair(e, fn) ==
    Cardinality({i \in 1..Len(DefOf(fn, 0).fused_pairs) :
                    DefOf(fn, 0).fused_pairs[i].func_2 \in DOMAIN e})

\* the first user error of validate_schedule over the members, last first
RECURSIVE ValidateMembers(_, _, _, _, _)
ValidateMembers(e, group, outs, stmt, j) ==
    IF j < 1 THEN ""
    ELSE LET r == validate_schedule(e[group[j]], stmt, group[j] \in outs)
         IN IF r # "" THEN r ELSE ValidateMembers(e, group, outs, stmt, j - 1)

Init ==
    /\ \E p \in Pipelines :
          /\ env = p.env
          /\ outputs = p.outputs
          /\ fused_groups = p.fused_groups
          /\ target = p.target
    /\ s = For(root_var, Const(0), Const(1), "Serial", "Host", Evaluate0)
    /\ gi = Len(fused_groups)
    /\ pc = "start"
    /\ err = ""
    /\ found = [fs |-> FALSE, fc |-> FALSE]

Fail(e) == pc' = "error" /\ err' = e

\* validate_fused_groups_schedule(fused_groups, env)
ValidateFusedGroups ==
    /\ pc = "start"
    /\ LET r == validate_fused_groups_schedule(fused_groups, env)
       IN IF r # "" THEN Fail(r)
          ELSE pc' = (IF gi > 0 THEN "validate" ELSE "finish") /\ err' = err
    /\ UNCHANGED <<target, env, outputs, fused_groups, s, gi, found>>

\* the loop over the members of the group: validate_schedule against s
ValidateSchedule ==
    /\ pc = "validate"
    /\ LET r == ValidateMembers(env, Group, outputs, s, Len(Group))
       IN IF r # "" THEN Fail(r) ELSE pc' = "inject" /\ err' = err
    /\ UNCHANGED <<target, env, outputs, fused_groups, s, gi, found>>

IsSingle == Len(Group) = 1 /\ relevant_fused_pair(env, env[Group[1]]) = 0
\* no function is taken as inlined
NeverInlined == FALSE

IsInlined == IsSingle /\ can_be_inlined(env[Group[1]]) /\ is_inline(env[Group[1]].compute_level)

\* the loop going on two groups down
NextGroupButOne == gi' = gi - 2 /\ pc' = (IF gi > 2 THEN "validate" ELSE "finish")

\* for (size_t i = fused_groups.size(); i > 0; --i)
NextGroup == gi' = gi - 1 /\ pc' = (IF gi > 1 THEN "validate" ELSE "finish")

\* s = inline_function(s, funcs[0])
InlineFunction ==
    /\ pc = "inject" /\ IsInlined
    /\ s' = inline_function(s, env[Group[1]])
    /\ NextGroup
    /\ UNCHANGED <<target, env, outputs, fused_groups, err, found>>

\* what follows injector.mutate(s): the assertion on the two found flags
AfterInject(r) ==
    /\ found' = [fs |-> r.fs, fc |-> r.fc]
    /\ IF r.err # "" THEN Fail(r.err) /\ UNCHANGED <<s, gi>>
       ELSE IF ~(r.fs /\ r.fc)
       THEN Fail("internal: found_store_level && found_compute_level") /\ UNCHANGED <<s, gi>>
       ELSE s' = r.s /\ NextGroup /\ err' = err

InjectOne ==
    /\ pc = "inject" /\ IsSingle /\ ~IsInlined
    /\ AfterInject(InjectRealization(env, env[Group[1]], IsOutputList[1],
                                     MutState(FALSE, FALSE, ""), s))
    /\ UNCHANGED <<target, env, outputs, fused_groups>>

InjectGroup ==
    /\ pc = "inject" /\ ~IsSingle
    /\ AfterInject(InjectGroupRealization(env, Group, IsOutputList,
                                          MutState(FALSE, FALSE, ""), s))
    /\ UNCHANGED <<target, env, outputs, fused_groups>>

\* the loop over root is taken off, then the loops over __outermost
Finish ==
    /\ pc = "finish"
    /\ IF s.k # "For" THEN Fail("internal: root_loop") /\ s' = s
       ELSE s' = RemoveLoopsOverOutermost(s.body) /\ pc' = "done" /\ err' = err
    /\ UNCHANGED <<target, env, outputs, fused_groups, gi, found>>

Next ==
    \/ ValidateFusedGroups
    \/ ValidateSchedule
    \/ InlineFunction
    \/ InjectOne
    \/ InjectGroup
    \/ Finish

Spec == Init /\ [][Next]_vars

---------------------------------------------------------------------------
(* Reading a statement: its nodes, each under the nodes that enclose it *)

\* a node without what it encloses
Header(st) ==
    CASE st.k = "For" -> [k |-> "For", name |-> st.name, min |-> st.min, extent |-> st.extent,
                          ft |-> st.ft, api |-> st.api]
      [] st.k = "If" -> [k |-> "If", cond |-> st.cond]
      [] st.k = "Realize" -> [k |-> "Realize", name |-> st.name]
      [] st.k = "PC" -> [k |-> "PC", name |-> st.name, prod |-> st.prod]
      [] st.k \in {"Provide", "Assert"} -> st
      [] OTHER -> [k |-> st.k]

\* the LetStmts of a chain, one header each, outermost first
LetHeaders(binds) ==
    [i \in 1..Len(binds) |-> [k |-> "Let", name |-> binds[i].name, value |-> binds[i].value]]

\* every node of st as [node, anc]: its header and the headers around it,
\* outermost first
RECURSIVE Occ(_, _)
Occ(st, anc) ==
    CASE st.k \in {"For", "Realize", "PC"} ->
            {[node |-> Header(st), anc |-> anc]} \cup Occ(st.body, Append(anc, Header(st)))
      [] st.k = "Let" ->
            {[node |-> LetHeaders(st.binds)[i],
              anc |-> anc \o SubSeq(LetHeaders(st.binds), 1, i - 1)] : i \in 1..Len(st.binds)}
                \cup Occ(st.body, anc \o LetHeaders(st.binds))
      [] st.k = "If" ->
            {[node |-> Header(st), anc |-> anc]} \cup Occ(st.body, Append(anc, Header(st)))
                \cup Occ(st.els, Append(anc, Header(st)))
      [] st.k = "Block" -> Occ(st.first, anc) \cup Occ(st.rest, anc)
      [] st.k = "Undef" -> {}
      [] OTHER -> {[node |-> Header(st), anc |-> anc]}

Nodes == Occ(s, <<>>)
Done == pc = "done"

\* the functions a node writes or reads
Touches(node) ==
    CASE node.k = "Provide" -> {node.name} \cup node.calls
      [] node.k = "If" -> ExprCalls(node.cond)
      [] OTHER -> {}

Within(o, kind, fname) == \E i \in 1..Len(o.anc) : o.anc[i].k = kind /\ o.anc[i].name = fname

\* the functions the driver replaced by their definitions
WasInlined(fname) ==
    /\ \E i \in 1..Len(fused_groups) : fused_groups[i] = <<fname>>
    /\ relevant_fused_pair(env, env[fname]) = 0
    /\ can_be_inlined(env[fname]) /\ is_inline(env[fname].compute_level)

Realized == {fname \in DOMAIN env : fname \notin outputs /\ ~WasInlined(fname)}

(* C1: in the statement schedule_functions returns, every Provide to and
   every Call of a function that is neither an output nor inlined lies
   inside a Realize of that function. *)
C1_RealizeDominates ==
    Done => \A o \in Nodes : \A fname \in Touches(o.node) \cap Realized :
                Within(o, "Realize", fname)

\* C1 where every Call of the function is in the value of a Provide
C1_CallsInValues ==
    Done => \A o \in Nodes : o.node.k = "Provide" =>
                \A fname \in Touches(o.node) \cap Realized : Within(o, "Realize", fname)

C1_Witness ==
    /\ Done
    /\ \E o \in Nodes : o.node.k = "Provide" /\ o.node.name = "out" /\ "f" \in o.node.calls
                        /\ "f" \in Realized /\ Within(o, "Realize", "f")
    /\ \E o \in Nodes : o.node.k = "Provide" /\ o.node.name = "f" /\ Within(o, "Realize", "f")

\* the names a node reads
Reads(node) ==
    CASE node.k = "For" -> ExprVars(node.min) \cup ExprVars(node.extent)
      [] node.k = "Let" -> ExprVars(node.value)
      [] node.k = "If" -> ExprVars(node.cond)
      [] node.k = "Provide" -> UNION {ExprVars(node.site[i]) : i \in 1..Len(node.site)}
      [] OTHER -> {}

Binds(o, n) == \E i \in 1..Len(o.anc) : o.anc[i].k \in {"For", "Let"} /\ o.anc[i].name = n

OverOutermost(node) == node.k = "For" /\ node.name.v = Outermost /\ node.name.sfx = ""
OutermostBound(node) ==
    node.k = "Let" /\ node.name.v = Outermost
        /\ node.name.sfx \in {"loop_min", "loop_max", "loop_extent"}

(* C2 as stated: the statement schedule_functions returns has no For over a
   name ending in .__outermost and no LetStmt binding a
   .__outermost.loop_min, loop_max or loop_extent. *)
C2_NoOutermost ==
    Done => \A o \in Nodes : ~OverOutermost(o.node) /\ ~OutermostBound(o.node)

(* C2, amended: the statement schedule_functions returns has no For over a
   name ending in .__outermost whose device_api is None and no LetStmt
   binding a .__outermost.loop_min, loop_max or loop_extent; a loop over
   __outermost that is left runs from 0 over an extent of 1, and no name of
   a removed loop or binding is read any more. *)
C2_NoOutermostOnHost ==
    Done => \A o \in Nodes :
        /\ ~OutermostBound(o.node)
        /\ OverOutermost(o.node) =>
              o.node.api # "None" /\ o.node.min = Const(0) /\ o.node.extent = Const(1)
        /\ \A n \in Reads(o.node) : n.v = Outermost => n.sfx = "" /\ Binds(o, n)

C2_Witness ==
    /\ Done
    /\ \E o \in Nodes : o.node.k = "Provide" /\ o.node.name = "out"
    /\ \A o \in Nodes : ~OverOutermost(o.node)
    /\ \E fname \in DOMAIN env : \E d \in 1..Len(env[fname].defs) :
          env[fname].defs[d].dims[Len(env[fname].defs[d].dims)].var = Outermost

C2_WitnessDevice ==
    Done /\ \E o \in Nodes : OverOutermost(o.node) /\ o.node.api = "GPU"

Parallel(node) == node.k = "For" /\ node.ft \in {"Parallel", "Vectorized"}

\* the index in o.anc of the innermost node of the kind and name, or 0
Innermost(o, kind, fname) ==
    IF Within(o, kind, fname)
    THEN CHOOSE i \in 1..Len(o.anc) :
            /\ o.anc[i].k = kind /\ o.anc[i].name = fname
            /\ \A j \in (i + 1)..Len(o.anc) : ~(o.anc[j].k = kind /\ o.anc[j].name = fname)
    ELSE 0

Produces(o, fname) == o.node.k = "PC" /\ o.node.prod /\ o.node.name = fname

(* C3: in every schedule that validate_schedule accepts, no Parallel or
   Vectorized loop lies between the store level of a function, where its
   Realize is, and its compute level, where it is produced. *)
C3_NoParallelBetween ==
    \A o \in Nodes : \A fname \in DOMAIN env :
        Produces(o, fname) /\ Within(o, "Realize", fname) =>
            \A j \in (Innermost(o, "Realize", fname) + 1)..Len(o.anc) : ~Parallel(o.anc[j])

\* the sites of the legality analysis that are strictly inside a site of the
\* store level and at or outside a site of the compute level
SitesBetween(fn, sites) ==
    {k \in 1..Len(sites) :
        \E i \in 1..Len(sites) : \E j \in 1..Len(sites) :
            /\ match_level(sites[i].loop_level, fn.store_level)
            /\ match_level(sites[j].loop_level, fn.compute_level)
            /\ i < k /\ k <= j}

\* the user errors of validate_schedule; the loop over the members of a
\* group stops at the first
ValidateErrors ==
    {"user: output must be scheduled compute_root",
     "user: scheduled inline, so it must not have any specializations",
     "user: stored outside a parallel loop but computed within it",
     "user: computed at an invalid location"}

\* the members of the group at hand that validate_schedule checks against
\* the legal sites
Placed == {fname \in {Group[j] : j \in 1..Len(Group)} :
              /\ fname \notin outputs
              /\ ~(is_inline(env[fname].store_level) /\ is_inline(env[fname].compute_level))}

\* C3, first part: validate_schedule raises a user error when a legal site
\* between the store level and the compute level is parallel
C3_ParallelSiteRejected ==
    pc = "inject" => \A fname \in Placed :
        \A k \in SitesBetween(env[fname], sites_allowed(fname, s)) :
            ~sites_allowed(fname, s)[k].is_parallel

C3_Witness ==
    /\ pc = "error" /\ err = "user: stored outside a parallel loop but computed within it"
    /\ \E fname \in Placed : \E k \in SitesBetween(env[fname], sites_allowed(fname, s)) :
          sites_allowed(fname, s)[k].is_parallel

\* both levels are legal sites, the compute level at or inside the store level
LevelsLegal(fn, sites) ==
    \E i \in 1..Len(sites) : \E j \in i..Len(sites) :
        /\ match_level(sites[i].loop_level, fn.store_level)
        /\ match_level(sites[j].loop_level, fn.compute_level)

(* C4: validate_schedule accepts a function that is neither an output nor
   inline only if its store level and its compute level both match a legal
   site computed from its uses, the compute level's site at or inside the
   store level's; in every other case, a function without a use included,
   it raises a user error. *)
C4_AcceptsLegalLevelsOnly ==
    [][ValidateSchedule =>
        /\ pc' = "inject" => \A fname \in Placed : LevelsLegal(env[fname], sites_allowed(fname, s))
        /\ \A fname \in Placed : ~LevelsLegal(env[fname], sites_allowed(fname, s)) =>
              /\ validate_schedule(env[fname], s, FALSE) = "user: computed at an invalid location"
              /\ pc' = "error" /\ err' \in ValidateErrors
              /\ Len(Group) = 1 => err' = "user: computed at an invalid location"]_vars

\* accepted with the compute level strictly inside the store level
C4_Witness ==
    /\ pc = "inject"
    /\ \E fname \in Placed :
          /\ LevelsLegal(env[fname], sites_allowed(fname, s))
          /\ ~match_level(env[fname].store_level, env[fname].compute_level)

\* rejected: the levels are legal sites, the compute level outside the store level
C4_WitnessOutside ==
    /\ pc = "error" /\ err = "user: computed at an invalid location"
    /\ \E fname \in Placed : \E i, j \in 1..Len(sites_allowed(fname, s)) :
          /\ j < i
          /\ match_level(sites_allowed(fname, s)[i].loop_level, env[fname].store_level)
          /\ match_level(sites_allowed(fname, s)[j].loop_level, env[fname].compute_level)

\* rejected: the function has no use in the skeleton
C4_WitnessNoUse ==
    /\ pc = "error" /\ err = "user: computed at an invalid location"
    /\ \E fname \in Placed : ~function_is_used_in_stmt(fname, s) /\ sites_allowed(fname, s) = <<>>

AtRoot(fn) == is_root(fn.store_level) /\ is_root(fn.compute_level)
OutputsOfGroup == {Group[j] : j \in 1..Len(Group)} \cap outputs

(* C5: validate_schedule raises a user error for an output unless its store
   level and its compute level are both root, and accepts an output at
   root without the legality analysis, whose sites are empty for a function
   that has no use. *)
C5_OutputAtRoot ==
    [][ValidateSchedule =>
        /\ pc' = "inject" => \A fname \in OutputsOfGroup : AtRoot(env[fname])
        /\ \A fname \in OutputsOfGroup : ~AtRoot(env[fname]) =>
              /\ validate_schedule(env[fname], s, TRUE) = "user: output must be scheduled compute_root"
              /\ pc' = "error" /\ err' \in ValidateErrors
              /\ Len(Group) = 1 => err' = "user: output must be scheduled compute_root"
        /\ \A fname \in OutputsOfGroup : AtRoot(env[fname]) =>
              validate_schedule(env[fname], s, TRUE) = ""
        /\ (Len(Group) = 1 /\ OutputsOfGroup # {} /\ AtRoot(env[Group[1]])) => pc' = "inject"]_vars

C5_Witness ==
    /\ pc = "inject" /\ Len(Group) = 1 /\ Group[1] \in outputs /\ AtRoot(env[Group[1]])
    /\ sites_allowed(Group[1], s) = <<>>

C5_WitnessRejected ==
    /\ pc = "error" /\ err = "user: output must be scheduled compute_root"
    /\ \E fname \in OutputsOfGroup : ~AtRoot(env[fname])

\* the groups whose injection is done
Injected(fname) ==
    \E i \in 1..Len(fused_groups) :
        /\ \E j \in 1..Len(fused_groups[i]) : fused_groups[i][j] = fname
        /\ (i > gi \/ pc \in {"finish", "done"})

(* C6: no injector emits a Realize of an output, and the produce and
   consume markers of an output are emitted at its compute level, root. *)
C6_NoRealizeOfOutput ==
    /\ \A o \in Nodes : o.node.k = "Realize" => o.node.name \notin outputs
    /\ \A fname \in outputs : Injected(fname) /\ pc # "error" =>
          /\ \E o \in Nodes : Produces(o, fname)
                                /\ \A j \in 1..Len(o.anc) : o.anc[j].k \in {"PC", "Realize"}
                                                              \/ o.anc[j].name = root_var
          /\ \E o \in Nodes : o.node.k = "PC" /\ ~o.node.prod /\ o.node.name = fname

C6_Witness ==
    /\ \E fname \in outputs : Injected(fname) /\ \E o \in Nodes : Produces(o, fname)
    /\ \E o \in Nodes : o.node.k = "Realize"

\* the value of the innermost LetStmt around o that binds n, Undef when none does
LetValue(o, n) ==
    LET at == {i \in 1..Len(o.anc) : o.anc[i].k = "Let" /\ o.anc[i].name = n}
    IN IF at = {} THEN Undef ELSE o.anc[CHOOSE i \in at : \A j \in at : j <= i].value

StageDefs == UNION {{env[fname].defs[d] : d \in 1..Len(env[fname].defs)} : fname \in DOMAIN env}
PairsOfDef(def) == {def.fused_pairs[i] : i \in 1..Len(def.fused_pairs)}

\* the fused pairs of the pipeline, each with a dim of the parent stage that
\* is fused: from the pair's var up to but excluding __outermost
FusedStageDims ==
    UNION {UNION {{[pair |-> q, dim |-> def.dims[j].var] :
                      j \in FindDim(def.dims, q.var_name)..(Len(def.dims) - 1)} :
                  q \in PairsOfDef(def)} : def \in StageDefs}

\* the loops of the statement over a dim of a stage
LoopsOver(fname, stage, dim) ==
    {o \in Nodes : /\ o.node.k = "For" /\ o.node.name.f = fname /\ o.node.name.s = stage
                    /\ o.node.name.v = dim /\ o.node.name.sfx = ""}

\* e is the loop variable of the stage over the dim, renamed or not
IsLoopVarOf(e, fname, stage, dim) ==
    e.k = "Var" /\ e.n.f = fname /\ e.n.s = stage /\ e.n.v = dim /\ e.n.sfx = ""

\* the functions produced by the single-function injector
InjectedAlone(fname) ==
    \E i \in 1..Len(fused_groups) :
        fused_groups[i] = <<fname>> /\ relevant_fused_pair(env, env[fname]) = 0

(* C7: for every fused pair of a group that the fused-group injector
   produces and every dim from its var up to but excluding __outermost, a
   loop emitted for the child stage on that dim is named
   <child>.s<stage>.fused.<dim>, runs from its loop_min over its loop_extent,
   has loop_min and loop_max bound to the parent stage's loop variable for
   the dim and loop_extent bound to 1, and is Serial whatever the child's
   schedule says. *)
C7_ChildLoopFused ==
    \A x \in FusedStageDims : \A o \in LoopsOver(x.pair.func_2, x.pair.stage_2, x.dim) :
      ~InjectedAlone(x.pair.func_2) =>
        /\ o.node.name.fu
        /\ o.node.ft = "Serial"
        /\ o.node.min = Var(Suffixed(o.node.name, "loop_min"))
        /\ o.node.extent = Var(Suffixed(o.node.name, "loop_extent"))
        /\ IsLoopVarOf(LetValue(o, Suffixed(o.node.name, "loop_min")),
                       x.pair.func_1, x.pair.stage_1, x.dim)
        /\ IsLoopVarOf(LetValue(o, Suffixed(o.node.name, "loop_max")),
                       x.pair.func_1, x.pair.stage_1, x.dim)
        /\ LetValue(o, Suffixed(o.node.name, "loop_extent")) = Const(1)

\* a child loop whose dim the child's schedule made Parallel
C7_Witness ==
    /\ Done
    /\ \E x \in FusedStageDims : \E o \in LoopsOver(x.pair.func_2, x.pair.stage_2, x.dim) :
          \E j \in 1..Len(DefOf(env[x.pair.func_2], x.pair.stage_2).dims) :
              /\ DefOf(env[x.pair.func_2], x.pair.stage_2).dims[j].var = x.dim
              /\ DefOf(env[x.pair.func_2], x.pair.stage_2).dims[j].ft = "Parallel"

\* the largest value bounds inference is taken to supply for a min or a max
MaxCoord == 1

\* e as it reads under the first pos - 1 nodes of anc: every name a LetStmt
\* binds is replaced by the value bound, loop variables and free names stay
RECURSIVE Resolve(_, _, _)
Resolve(anc, pos, e) ==
    CASE e.k = "Var" ->
            LET at == {i \in 1..(pos - 1) : anc[i].k \in {"For", "Let"} /\ anc[i].name = e.n}
                i == CHOOSE i \in at : \A j \in at : j <= i
            IN IF at = {} \/ anc[i].k = "For" THEN e ELSE Resolve(anc, i, anc[i].value)
      [] e.k \in {"Const", "Pred"} -> e
      [] OTHER -> [e EXCEPT !.a = Resolve(anc, pos, e.a), !.b = Resolve(anc, pos, e.b)]

\* the value of an expression under an assignment of its names
RECURSIVE EvalExpr(_, _)
EvalExpr(e, val) ==
    CASE e.k = "Const" -> e.c
      [] e.k = "Var" -> val[e.n]
      [] e.k = "Add" -> EvalExpr(e.a, val) + EvalExpr(e.b, val)
      [] e.k = "Sub" -> EvalExpr(e.a, val) - EvalExpr(e.b, val)
      [] e.k = "Min" -> IF EvalExpr(e.a, val) <= EvalExpr(e.b, val)
                        THEN EvalExpr(e.a, val) ELSE EvalExpr(e.b, val)
      [] e.k = "Max" -> IF EvalExpr(e.a, val) >= EvalExpr(e.b, val)
                        THEN EvalExpr(e.a, val) ELSE EvalExpr(e.b, val)

Least(S) == CHOOSE m \in S : \A x \in S : m <= x
Greatest(S) == CHOOSE m \in S : \A x \in S : m >= x

\* the value around o of the name n, with the names LetStmts bind resolved
Bound(o, n) == Resolve(o.anc, Len(o.anc) + 1, Var(n))

\* build_pipeline_group skips a member that is no output and that no
\* function outside its group calls
MembersWith(fname) ==
    UNION {{fused_groups[i][j] : j \in 1..Len(fused_groups[i])} :
              i \in {i \in 1..Len(fused_groups) :
                        \E j \in 1..Len(fused_groups[i]) : fused_groups[i][j] = fname}}
Skipped(fname) ==
    /\ fname \notin outputs
    /\ \A g \in DOMAIN env \ MembersWith(fname) :
          \A d \in 1..Len(env[g].defs) :
              /\ fname \notin env[g].defs[d].calls
              /\ \A i \in 1..Len(env[g].defs[d].preds) :
                    fname \notin ExprCalls(env[g].defs[d].preds[i])

\* the same where the group is produced around the node o: the members that
\* are not skipped there are those whose producer node is around o
SkippedAt(o, fname) ==
    ~\E i \in 1..Len(o.anc) : o.anc[i].k = "PC" /\ o.anc[i].prod /\ o.anc[i].name = fname

Stage(fname, stage) == [f |-> fname, s |-> stage]
LivePairs(o, t) ==
    {q \in PairsOfDef(DefOf(env[t.f], t.s)) : q.func_2 \in DOMAIN env /\ ~SkippedAt(o, q.func_2)}

\* the stages fused on a stage of S, directly or through other stages
RECURSIVE Dependents(_, _)
Dependents(o, S) ==
    LET more == S \cup UNION {{Stage(q.func_2, q.stage_2) : q \in LivePairs(o, t)} : t \in S}
    IN IF more = S THEN S ELSE Dependents(o, more)

\* the stages fused, directly or transitively, on the dim of stage 0 of parent
FusedOn(o, parent, dim) ==
    LET dims == DefOf(env[parent], 0).dims
    IN {Stage(q.func_2, q.stage_2) :
           q \in {q \in UNION {LivePairs(o, t) : t \in Dependents(o, {Stage(parent, 0)})} :
                      FindDim(dims, q.var_name) <= FindDim(dims, dim)}}

\* the bounds the loop nest of a stage was built with: the value of its
\* LetStmt, around o or, for a nest under the condition of a specialization,
\* where the nest binds it
LetsOf(n) == {ol \in Nodes : ol.node.k = "Let" /\ ol.node.name = n}
Original(o, t, dim, sfx) ==
    LET n == Suffixed(LoopName(t.f, t.s, dim), sfx)
    IN IF Bound(o, n) # Var(n) \/ LetsOf(n) = {} THEN Bound(o, n)
       ELSE LET ol == CHOOSE ol \in LetsOf(n) : TRUE
            IN Resolve(ol.anc, Len(ol.anc) + 1, ol.node.value)

\* the names the union of the bounds of the stages T on a dim rests on
UnionNames(o, T, dim) ==
    UNION {ExprVars(Original(o, t, dim, "loop_min")) \cup ExprVars(Original(o, t, dim, "loop_max")) :
              t \in T}
        \cup UNION {ExprVars(Bound(o, Suffixed(o.node.name, x))) :
                        x \in {"loop_min", "loop_max", "loop_extent"}}

\* the bounds of the loop o are the union of the original bounds of the stages T
IsUnionOf(o, T, dim) ==
    \A val \in [UnionNames(o, T, dim) -> 0..MaxCoord] :
        LET lo == Least({EvalExpr(Original(o, t, dim, "loop_min"), val) : t \in T})
            hi == Greatest({EvalExpr(Original(o, t, dim, "loop_max"), val) : t \in T})
        IN /\ EvalExpr(Bound(o, Suffixed(o.node.name, "loop_min")), val) = lo
           /\ EvalExpr(Bound(o, Suffixed(o.node.name, "loop_max")), val) = hi
           /\ EvalExpr(Bound(o, Suffixed(o.node.name, "loop_extent")), val) = hi - lo + 1

\* the first members of the groups, and their dims but __outermost
GroupParents == {fused_groups[i][1] : i \in 1..Len(fused_groups)}
DimsOf(fname, stage) ==
    {DefOf(env[fname], stage).dims[j].var : j \in 1..(Len(DefOf(env[fname], stage).dims) - 1)}

(* C8: once the producer of a fused group is built, for every dim of stage 0
   of the group's parent on which a stage that is not skipped is fused,
   directly or transitively, the parent's loop runs from its loop_min over
   its loop_extent, its loop_min is the least original loop_min of the parent
   and of these stages, its loop_max the greatest original loop_max and its
   loop_extent is loop_max - loop_min + 1. *)
C8_ParentBoundsAreUnion ==
    \A parent \in GroupParents : \A dim \in DimsOf(parent, 0) :
        \A o \in LoopsOver(parent, 0, dim) :
            FusedOn(o, parent, dim) # {} =>
                /\ o.node.min = Var(Suffixed(o.node.name, "loop_min"))
                /\ o.node.extent = Var(Suffixed(o.node.name, "loop_extent"))
                /\ IsUnionOf(o, {Stage(parent, 0)} \cup FusedOn(o, parent, dim), dim)

\* a parent loop under the union of three stages
C8_Witness ==
    \E parent \in GroupParents : \E dim \in DimsOf(parent, 0) :
        \E o \in LoopsOver(parent, 0, dim) : Cardinality(FusedOn(o, parent, dim)) >= 2

\* what has to hold of the loop variables for o to execute, each [a, b] for
\* a <= b: a loop variable lies within the bounds of its loop and the
\* condition of an IfThenElse on loop bounds holds
ForsAround(o) == {i \in 1..Len(o.anc) : o.anc[i].k = "For"}
GuardsAround(o) == {i \in 1..Len(o.anc) : o.anc[i].k = "If" /\ o.anc[i].cond.k = "LE"}
Constraints(o) ==
    {[a |-> Resolve(o.anc, i, o.anc[i].min), b |-> Var(o.anc[i].name)] : i \in ForsAround(o)}
    \cup {[a |-> Var(o.anc[i].name),
           b |-> Bin("Sub", Bin("Add", Resolve(o.anc, i, o.anc[i].min),
                                 Resolve(o.anc, i, o.anc[i].extent)), Const(1))] :
              i \in ForsAround(o)}
    \cup {[a |-> Resolve(o.anc, i, o.anc[i].cond.a), b |-> Resolve(o.anc, i, o.anc[i].cond.b)] :
              i \in GuardsAround(o)}

ConstraintVars(c) == ExprVars(c.a) \cup ExprVars(c.b)

\* the names that bear on the names of S through the constraints cons
RECURSIVE Bearing(_, _)
Bearing(S, cons) ==
    LET more == S \cup UNION {ConstraintVars(c) : c \in {c \in cons : ConstraintVars(c) \cap S # {}}}
    IN IF more = S THEN S ELSE Bearing(more, cons)

\* the stage a Provide belongs to, its site in the k-th arg and the bounds
\* its loop nest was built with for that arg
StageOfProvide(o) == Stage(o.node.name, o.node.site[1].n.s)
SiteAt(o, k) == Resolve(o.anc, Len(o.anc) + 1, o.node.site[k])
OwnBound(o, k, sfx) ==
    Original(o, StageOfProvide(o), env[o.node.name].args[k], sfx)

\* the names the execution of o in its k-th arg rests on: loop variables and
\* names free in the statement
NamesAt(o, k) ==
    Bearing(ExprVars(SiteAt(o, k)) \cup ExprVars(OwnBound(o, k, "loop_min"))
                \cup ExprVars(OwnBound(o, k, "loop_max")), Constraints(o))
LoopNamesAt(o, k) == NamesAt(o, k) \cap {o.anc[i].name : i \in ForsAround(o)}

\* the constraints on the names the execution of o in its k-th arg rests on
ConstraintsAt(o, k) == {c \in Constraints(o) : ConstraintVars(c) \subseteq NamesAt(o, k)}

Executes(cons, val) == \A c \in cons : EvalExpr(c.a, val) <= EvalExpr(c.b, val)

Provides(fname, stage) ==
    {o \in Nodes : o.node.k = "Provide" /\ StageOfProvide(o) = Stage(fname, stage)}

\* a Provide with the constraints cons executes at every coordinate of lo..hi
CoversRange(free, loops, cons, site, lo, hi) ==
    \A fv \in [free -> 0..MaxCoord] :
        \A c \in EvalExpr(lo, fv)..EvalExpr(hi, fv) :
            \E lv \in [loops -> 0..MaxCoord] :
                Executes(cons, fv @@ lv) /\ EvalExpr(site, fv @@ lv) = c

\* o executes at every coordinate of its stage's original range in arg k
Covers(o, k) ==
    CoversRange(NamesAt(o, k) \ LoopNamesAt(o, k), LoopNamesAt(o, k), ConstraintsAt(o, k),
                SiteAt(o, k), OwnBound(o, k, "loop_min"), OwnBound(o, k, "loop_max"))

\* a Provide with the constraints cons executes only at coordinates of lo..hi
WithinRange(names, cons, site, lo, hi) ==
    \A val \in [names -> 0..MaxCoord] :
        Executes(cons, val) =>
            EvalExpr(lo, val) <= EvalExpr(site, val) /\ EvalExpr(site, val) <= EvalExpr(hi, val)

\* o executes only at coordinates of its stage's original range in arg k
StaysWithin(o, k) ==
    WithinRange(NamesAt(o, k), ConstraintsAt(o, k), SiteAt(o, k),
                OwnBound(o, k, "loop_min"), OwnBound(o, k, "loop_max"))

\* the fused pairs whose parent and child are both produced
ProducedPairs ==
    {q \in UNION {PairsOfDef(def) : def \in StageDefs} :
        q.func_2 \in DOMAIN env /\ ~Skipped(q.func_2) /\ ~Skipped(q.func_1)}

\* the args of the child of a pair that are dims fused by the pair
FusedArgs(q) ==
    {k \in 1..Len(env[q.func_2].args) :
        \E x \in FusedStageDims : x.pair = q /\ x.dim = env[q.func_2].args[k]}

(* C9: fusion loses no iteration: for every fused pair that validation
   accepts and whose stages are produced, whatever stages they are, the
   Provide of the child stage executes at every coordinate of the child's
   own original [loop_min, loop_max] in each fused dim. *)
C9_ChildCoversItsRange ==
    Done => \A q \in ProducedPairs : \A k \in FusedArgs(q) :
                \E o \in Provides(q.func_2, q.stage_2) : Covers(o, k)

\* C9 for the pairs whose parent is stage 0 of the first function of its group
C9_ChildOfStageZeroCovers ==
    Done => \A q \in ProducedPairs : \A k \in FusedArgs(q) :
                q.stage_1 = 0 /\ q.func_1 \in GroupParents =>
                    \E o \in Provides(q.func_2, q.stage_2) : Covers(o, k)

\* the first dim a stage is built fused from, Len(dims) when it is built with
\* no start_fuse, as every stage is by the single-function injector: its live
\* fuse level and the vars of its live pairs
FuseFrom(o, t) ==
    LET def == DefOf(env[t.f], t.s)
        level == IF ~is_inline(def.fuse_level) /\ ~is_root(def.fuse_level)
                    /\ ~SkippedAt(o, def.fuse_level.f)
                 THEN {FindDim(def.dims, def.fuse_level.v)} ELSE {}
        pairs == {FindDim(def.dims, q.var_name) : q \in LivePairs(o, t)}
    IN IF level \cup pairs = {} \/ InjectedAlone(t.f) THEN Len(def.dims)
       ELSE Least(level \cup pairs)

\* the conditions of the IfThenElse nodes on loop bounds around o
GuardConds(o) == {o.anc[i].cond : i \in GuardsAround(o)}

\* the two guards of a dim are around o, on the loop variable or its renaming
Guarded(o, v) ==
    /\ \E w \in {v, FusedName(v)} : LE(Var(Suffixed(v, "loop_min")), Var(w)) \in GuardConds(o)
    /\ \E w \in {v, FusedName(v)} : LE(Var(w), Var(Suffixed(v, "loop_max"))) \in GuardConds(o)

(* C10: the Provide of a stage built with a start_fuse is inside the guards
   loop_min <= var and var <= loop_max of every dim from start_fuse up to
   but excluding __outermost, on the stage's own bounds, and inside no other
   guard, a stage built with no start_fuse inside none; and whatever bounds
   the loops around it run over, a Provide executes only at coordinates
   within its stage's own original bounds. *)
C10_GuardsKeepWithin ==
    Done => \A o \in Nodes : o.node.k = "Provide" =>
        LET t == StageOfProvide(o)
            dims == DefOf(env[t.f], t.s).dims
        IN /\ \A j \in FuseFrom(o, t)..(Len(dims) - 1) :
                 Guarded(o, LoopName(t.f, t.s, dims[j].var))
           /\ Cardinality(GuardsAround(o)) = 2 * (Len(dims) - FuseFrom(o, t))
           /\ \A k \in 1..Len(o.node.site) : StaysWithin(o, k)

\* a guarded Provide under a loop that runs over the union of two stages'
\* bounds, and a Provide of a stage built with no start_fuse
C10_Witness ==
    /\ Done
    /\ \E o \in Nodes : o.node.k = "Provide" /\ GuardsAround(o) # {}
                          /\ \E i \in ForsAround(o) : \E e \in {Bound(o, o.anc[i].min.n)} :
                                o.anc[i].min.k = "Var" /\ e.k = "Min"
    /\ \E o \in Nodes : o.node.k = "Provide" /\ GuardsAround(o) = {}


---------------------------------------------------------------------------
(* Specialized definitions: build_provide_loop_nest applied to a           *)
(* definition with a chain of specializations, some of them specialized    *)
(* again                                                                   *)

MaxSpecs == 2

PlainDef(ft) ==
    Def(<<Dim("x", ft, "None"), Dim(Outermost, "Serial", "None")>>, Inline, <<>>, {}, <<>>)

Alternatives ==
    {PlainDef(ft) : ft \in ForTypes}
        \cup {Specialize(PlainDef(ft), <<PlainDef(ft2)>>) : ft \in ForTypes, ft2 \in ForTypes}

SpecializedDefs ==
    {Specialize(PlainDef(ft), alts) :
        ft \in ForTypes, alts \in UNION {[1..n -> Alternatives] : n \in 0..MaxSpecs}}

\* A stage whose pure var x is split into xo and xi. apply_splits hands the
\* builder the lets of the split, already qualified: the old var x, and
\* before it in the containers vector the base of the inner loop. Each value
\* reads loop vars, and the value of x may read the base.
MaxPreds == 2

SplitDims ==
    <<Dim("xi", "Serial", "None"), Dim("xo", "Serial", "None"),
      Dim(Outermost, "Serial", "None")>>

OldVar == LoopName("f", 0, "x")
BaseVar == Suffixed(LoopName("f", 0, "xi"), "base")

LetValues(names) ==
    {Const(0)} \cup {Var(n) : n \in names}
        \cup UNION {{Bin("Add", Var(a), Var(b)) : b \in names \ {a}} : a \in names}

SplitLets ==
    {<<>>}
        \cup {<<Binding(OldVar, v)>> :
                 v \in LetValues({LoopName("f", 0, "xi"), LoopName("f", 0, "xo")})}
        \cup {<<Binding(OldVar, v), Binding(BaseVar, w)>> :
                 v \in LetValues({BaseVar, LoopName("f", 0, "xi"), LoopName("f", 0, "xo")}),
                 w \in LetValues({LoopName("f", 0, "xo")})}

SplitPreds ==
    {Pred(vs, {}, impure) :
        vs \in {{}, {"x"}, {"xi"}, {"xo"}, {"x", "xo"}}, impure \in BOOLEAN}

SplitDefs ==
    {[Def(SplitDims, Inline, <<>>, {}, preds) EXCEPT !.lets = lets] :
        lets \in SplitLets,
        preds \in UNION {[1..n -> SplitPreds] : n \in 0..MaxPreds}}

NestInit ==
    /\ \E def \in SpecializedDefs \cup SplitDefs :
          env = ("f" :> Function("f", <<"x">>, <<def>>, Root, Root))
    /\ outputs = {"f"}
    /\ fused_groups = <<<<"f">>>>
    /\ target = {}
    /\ s = Evaluate0
    /\ gi = 1
    /\ pc = "nest"
    /\ err = ""
    /\ found = [fs |-> FALSE, fc |-> FALSE]

BuildProvideLoopNest ==
    /\ pc = "nest"
    /\ s' = build_produce(env["f"])
    /\ pc' = "built"
    /\ UNCHANGED <<target, env, outputs, fused_groups, gi, err, found>>

NestNext == BuildProvideLoopNest

NestSpec == NestInit /\ [][NestNext]_vars

\* the statement reached from st by taking the else-branch i times
RECURSIVE ElseBranch(_, _)
ElseBranch(st, i) ==
    IF i = 0 THEN st
    ELSE IF st.k = "If" THEN ElseBranch(st.els, i - 1)
    ELSE Undef

\* C11: for a definition with the specializations (c_1, alt_1) .. (c_k, alt_k)
\* in source order, the nest built is IfThenElse(c_1, nest(alt_1),
\* IfThenElse(c_2, nest(alt_2), ... nest(base))): walking down the
\* else-branches meets exactly k IfThenElse nodes, the i-th testing c_i with
\* the nest of alt_i as its then-branch, and after them the nest of the base
\* definition, which is no IfThenElse.
C11_SpecializationChain ==
    pc = "built" =>
        LET fn == env["f"]
            def == DefOf(fn, 0)
            specs == def.specializations
            k == Len(specs)
        IN /\ \A i \in 1..k :
                LET n == ElseBranch(s, i - 1)
                IN /\ n.k = "If"
                   /\ n.cond = specs[i].condition
                   /\ n.body = build_provide_loop_nest(fn.name, 0, 0, fn.args,
                                                       specs[i].definition)
           /\ ElseBranch(s, k) =
                  build_provide_loop_nest_helper(fn.name, 0, 0, fn.args, def)
           /\ ElseBranch(s, k).k # "If"

\* a nest was built for two specializations with different alternatives, the
\* first of them specialized again
C11_Witness ==
    /\ pc = "built"
    /\ LET specs == DefOf(env["f"], 0).specializations
       IN /\ Len(specs) = 2
          /\ specs[1].definition # specs[2].definition
          /\ specs[1].definition.specializations # <<>>
          /\ s.k = "If" /\ s.els.k = "If"


---------------------------------------------------------------------------
(* Explicit bounds *)

\* the AssertStmts in front of a statement, outermost first, and what they
\* are in front of
RECURSIVE LeadingAsserts(_)
LeadingAsserts(st) ==
    IF st.k = "Block" /\ st.first.k = "Assert"
    THEN <<st.first>> \o LeadingAsserts(st.rest) ELSE <<>>
RECURSIVE AfterAsserts(_)
AfterAsserts(st) ==
    IF st.k = "Block" /\ st.first.k = "Assert" THEN AfterAsserts(st.rest) ELSE st

\* every place of st where a statement stands, as [asserts, body]: the
\* AssertStmts put in front of it and the header of the statement itself
RECURSIVE Sites(_)
Sites(st) ==
    LET b == AfterAsserts(st)
    IN {[asserts |-> LeadingAsserts(st), body |-> Header(b)]}
          \cup CASE b.k \in {"For", "Realize", "PC", "Let"} -> Sites(b.body)
                 [] b.k = "If" -> Sites(b.body) \cup Sites(b.els)
                 [] b.k = "Block" -> Sites(b.first) \cup Sites(b.rest)
                 [] OTHER -> {}

AssertsFor(site, fname) == SelectSeq(site.asserts, LAMBDA a : a.message.func = fname)

\* the value of a condition or an expression of constants and names
RECURSIVE Value(_, _)
Value(e, val) ==
    CASE e.k = "And" -> Value(e.a, val) /\ Value(e.b, val)
      [] e.k = "LE" -> Value(e.a, val) <= Value(e.b, val)
      [] e.k = "GE" -> Value(e.a, val) >= Value(e.b, val)
      [] OTHER -> EvalExpr(e, val)

\* the bounds of fn that declare an extent
WithExtent(fn) == {i \in 1..Len(fn.bounds) : defined(fn.bounds[i].extent)}

\* the assertion a checks bound b of fn at a stage: it names the bound, and
\* for every inferred range [lo, hi] it holds exactly when the declared range
\* [user_min, user_min + extent - 1] covers [lo, hi], where a bound that
\* declares no min takes the inferred one
ChecksBound(a, fn, stage, b) ==
    LET lo == Suffixed(LoopName(fn.name, stage, b.var), "min_unbounded")
        hi == Suffixed(LoopName(fn.name, stage, b.var), "max_unbounded")
    IN /\ a.message.var = b.var /\ a.message.func = fn.name
       /\ a.message.min_var = Var(lo) /\ a.message.max_var = Var(hi)
       /\ ExprVars(a.cond) \subseteq {lo, hi}
       /\ \A val \in [{lo, hi} -> 0..(MaxCoord + 1)] :
             LET user_min == IF defined(b.min) THEN b.min.c ELSE val[lo]
             IN Value(a.cond, val) <=>
                   (user_min <= val[lo] /\ user_min + b.extent.c - 1 >= val[hi])

\* the assertions of one realization site are those of fn: one for every
\* stage and every bound with an extent, none on a target with NoAsserts
CarriesBounds(as, fn) ==
    IF has_feature(target, "NoAsserts") THEN as = <<>>
    ELSE /\ Len(as) = (NumUpdates(fn) + 1) * Cardinality(WithExtent(fn))
         /\ \A stage \in 0..NumUpdates(fn) : \A i \in WithExtent(fn) :
               \E j \in 1..Len(as) : ChecksBound(as[j], fn, stage, fn.bounds[i])

\* the pipeline without its explicit bounds
Unbounded(e) == [fname \in DOMAIN e |-> [e[fname] EXCEPT !.bounds = <<>>]]

\* C12: every Realize of F is preceded by exactly the assertions of F's
\* bounds: one per stage and per bound with an extent, holding exactly when
\* user_min <= inferred_min and user_min + extent - 1 >= inferred_max; a
\* bound with only a modulus gives none, a target with NoAsserts gives none,
\* an output carries its assertions where it is injected, assertions stand
\* nowhere else, and the bounds never change what validation answers.
C12_ExplicitBoundsAsserted ==
    /\ \A site \in Sites(s) : \A fname \in DOMAIN env :
          LET as == AssertsFor(site, fname)
              here == \/ site.body.k = "Realize" /\ site.body.name = fname
                      \/ fname \in outputs /\ as # <<>>
          IN IF here THEN CarriesBounds(as, env[fname]) ELSE as = <<>>
    /\ \A fname \in outputs :
          Injected(fname) /\ pc # "error" /\ WithExtent(env[fname]) # {}
              /\ ~has_feature(target, "NoAsserts")
          => \E site \in Sites(s) : AssertsFor(site, fname) # <<>>
    /\ pc = "validate" =>
          ValidateMembers(env, Group, outputs, s, Len(Group))
              = ValidateMembers(Unbounded(env), Group, outputs, s, Len(Group))
    /\ pc = "start" =>
          validate_fused_groups_schedule(fused_groups, env)
              = validate_fused_groups_schedule(fused_groups, Unbounded(env))

\* f, with an update and with a bound that declares an extent and one that
\* declares only a modulus, was realized with its assertions in front
C12_Witness ==
    /\ Done
    /\ NumUpdates(env["f"]) = 1
    /\ Len(env["f"].bounds) = 2 /\ Cardinality(WithExtent(env["f"])) = 1
    /\ \E site \in Sites(s) :
          /\ site.body.k = "Realize" /\ site.body.name = "f"
          /\ Len(site.asserts) = 2

\* the same pipeline was lowered for a target with NoAsserts
C12_WitnessNoAsserts ==
    /\ Done /\ has_feature(target, "NoAsserts")
    /\ WithExtent(env["f"]) # {} /\ WithExtent(env["out"]) # {}
    /\ \E o \in Nodes : o.node.k = "Realize" /\ o.node.name = "f"

---------------------------------------------------------------------------
(* Validation of the fused pairs *)

\* the fused pairs of the pipeline whose child is in env
FusedPairs == {q \in UNION {PairsOfDef(def) : def \in StageDefs} : q.func_2 \in DOMAIN env}

\* the user errors of validate_fused_groups_schedule
FusedErrors ==
    {"user: compute_with: func_2 must not have any specializations",
     "user: compute_with: func_1 is scheduled inline",
     "user: compute_with: func_2 is scheduled inline",
     "user: compute_with: func_1 has extern definition",
     "user: compute_with: func_2 has extern definition",
     "user: compute_with: the compute levels do not match",
     "user: compute_with: cannot find var in func_1",
     "user: compute_with: cannot find var in func_2",
     "user: compute_with: number of fused dims do not match",
     "user: compute_with: dims do not match"}

\* a stage of the function is specialized
HasSpecializations(fn) == \E d \in 1..Len(fn.defs) : fn.defs[d].specializations # <<>>

\* the pair has what the claim forbids, a child counting as specialized when
\* specialized(child) holds
Forbidden(q, specialized(_)) ==
    LET func_1 == env[q.func_1]
        func_2 == env[q.func_2]
    IN \/ is_inline(func_1.compute_level) \/ is_inline(func_2.compute_level)
       \/ has_extern_definition(func_1) \/ has_extern_definition(func_2)
       \/ specialized(func_2)
       \/ q.func_1 # q.func_2 /\ func_1.compute_level # func_2.compute_level

Rejected == pc = "error" /\ err \in FusedErrors

\* C13: once validate_fused_groups_schedule has run, a pipeline with a fused
\* pair (child in env) in which a function is inline or extern, the child
\* function has specializations, or the two distinct functions have different
\* compute levels, was rejected with a user error.
C13_FusedPairsRejected ==
    pc # "start" /\ (\E q \in FusedPairs : Forbidden(q, HasSpecializations)) => Rejected

\* the same, for the specializations of the child's pure definition only
C13_PureSpecializationRejected ==
    pc # "start"
        /\ (\E q \in FusedPairs :
               Forbidden(q, LAMBDA fn : DefOf(fn, 0).specializations # <<>>))
    => Rejected

\* a pair whose child stage, an update, is specialized passed the validation
C13_Witness ==
    /\ pc \notin {"start", "error"}
    /\ \E q \in FusedPairs :
          /\ q.stage_2 = 1
          /\ DefOf(env[q.func_2], 1).specializations # <<>>

\* the dims of a stage from the var up to but excluding __outermost, or
\* Undef when the var is not among the dims
DimsFrom(dims, v) ==
    IF \A i \in 1..Len(dims) : ~var_name_match(dims[i].var, v) THEN Undef
    ELSE LET first == CHOOSE i \in 1..Len(dims) :
                         /\ var_name_match(dims[i].var, v)
                         /\ \A j \in 1..(i - 1) : ~var_name_match(dims[j].var, v)
             last == CHOOSE i \in 1..Len(dims) : dims[i].var = Outermost
         IN [k |-> "Dims", dims |-> SubSeq(dims, first, last - 1)]

\* the var of the pair is among the dims of both stages, and from it on the
\* two stages have as many dims, equal one by one
SameFusedDims(q) ==
    LET d1 == DimsFrom(DefOf(env[q.func_1], q.stage_1).dims, q.var_name)
        d2 == DimsFrom(DefOf(env[q.func_2], q.stage_2).dims, q.var_name)
    IN /\ defined(d1) /\ defined(d2)
       /\ Len(d1.dims) = Len(d2.dims)
       /\ \A i \in 1..Len(d1.dims) : d1.dims[i] = d2.dims[i]

\* C14: once validate_fused_groups_schedule has run, a pipeline with a fused
\* pair (child in env) whose var is missing from the dims of one of the two
\* stages, or whose stages differ in the number of dims from the var up to
\* but excluding __outermost, or in one of those dims, was rejected with a
\* user error.
C14_FusedDimsMatch ==
    pc # "start" /\ (\E q \in FusedPairs : ~SameFusedDims(q)) => Rejected

\* rejected for a dim after the first: both stages have the var and as many
\* dims from it on
C14_Witness ==
    /\ Rejected /\ err = "user: compute_with: dims do not match"
    /\ \E q \in FusedPairs :
          LET d1 == DimsFrom(DefOf(env[q.func_1], q.stage_1).dims, q.var_name)
              d2 == DimsFrom(DefOf(env[q.func_2], q.stage_2).dims, q.var_name)
          IN /\ defined(d1) /\ defined(d2) /\ Len(d1.dims) = 2 /\ Len(d2.dims) = 2
             /\ d1.dims[1] = d2.dims[1] /\ d1.dims[2] # d2.dims[2]

\* rejected for a var that one stage does not have, and for the number of dims
C14_WitnessNotFound ==
    /\ Rejected
    /\ err \in {"user: compute_with: cannot find var in func_1",
                "user: compute_with: cannot find var in func_2",
                "user: compute_with: number of fused dims do not match"}

\* accepted with two fused dims
C14_WitnessAccepted ==
    /\ Done
    /\ \E q \in FusedPairs : SameFusedDims(q) /\ q.func_1 # q.func_2
          /\ Len(DimsFrom(DefOf(env[q.func_1], q.stage_1).dims, q.var_name).dims) = 2

---------------------------------------------------------------------------
(* The fused group at its compute level *)

\* the statements enclosed by the loops of st that match the level, as the
\* injectors take them: the body of the loop under its LetStmts
RECURSIVE LoopBodies(_, _)
LoopBodies(level, st) ==
    CASE st.k = "For" ->
            (IF match(level, st.name) THEN {PeelLets(st.body).body} ELSE {})
                \cup LoopBodies(level, st.body)
      [] st.k \in {"Let", "Realize", "PC"} -> LoopBodies(level, st.body)
      [] st.k = "If" -> LoopBodies(level, st.body) \cup LoopBodies(level, st.els)
      [] st.k = "Block" -> LoopBodies(level, st.first) \cup LoopBodies(level, st.rest)
      [] OTHER -> {}

\* member i of the group being injected is used in the statement or an output
MemberUsed(b, i) == function_is_used_in_stmt(Group[i], b) \/ IsOutputList[i]

InjectingGroup == pc = "inject" /\ ~IsSingle

ParentError == "user: the parent function of the fused group is not used"

\* C15: when a fused group is injected, a statement enclosed by a loop at
\* the group's compute level in which some member is used (or is an output)
\* but the parent, the group's first function, is neither used nor an output
\* makes the injection a user error; a statement enclosed by such a loop in
\* which no member is used or an output is enclosed by it unchanged
\* afterwards.
C15_ParentMustBeUsed ==
    [][InjectingGroup =>
          LET level == env[Group[1]].compute_level
              members == 1..Len(Group)
          IN \A b \in LoopBodies(level, s) :
                /\ (\E i \in members : MemberUsed(b, i)) /\ ~MemberUsed(b, 1)
                   => pc' = "error" /\ err' = ParentError
                /\ (\A i \in members : ~MemberUsed(b, i)) /\ pc' # "error"
                   => b \in LoopBodies(level, s')]_vars

\* the injection was refused for a parent that a loop at the compute level
\* does not use
C15_Witness == pc = "error" /\ err = ParentError

\* a group is injected at a level with a loop that uses no member and a loop
\* that uses them all
C15_WitnessUnchanged ==
    /\ InjectingGroup
    /\ LET level == env[Group[1]].compute_level
       IN /\ \E b \in LoopBodies(level, s) : \A i \in 1..Len(Group) : ~MemberUsed(b, i)
          /\ \E b \in LoopBodies(level, s) : \A i \in 1..Len(Group) : MemberUsed(b, i)

\* a group with an output member that out does not call is injected
C15_WitnessOutput ==
    /\ InjectingGroup
    /\ \E i \in 1..Len(Group) : IsOutputList[i] /\ ~function_is_used_in_stmt(Group[i], s)

---------------------------------------------------------------------------
(* Pipelines of inlined functions *)

\* every function that is not an output is scheduled compute_inline, has no
\* specialization and is called by a value of another function; the outputs
\* are at root and nothing is fused
AllInline ==
    /\ \A fname \in DOMAIN env \ outputs :
          /\ is_inline(env[fname].compute_level) /\ is_inline(env[fname].store_level)
          /\ ~HasSpecializations(env[fname])
          /\ \E other \in DOMAIN env \ {fname} :
                \E d \in 1..Len(env[other].defs) : fname \in env[other].defs[d].calls
    /\ \A fname \in outputs : AtRoot(env[fname])
    /\ FusedPairs = {}

NoNodeOf(fnames) ==
    \A o \in Nodes : o.node.k \in {"Realize", "PC"} => o.node.name \notin fnames

\* C16, as stated: scheduling a pipeline in which every function that is not
\* an output is compute_inline and has no specialization succeeds and gives
\* a statement with no Realize and no ProducerConsumer of any of them.
C16_InlineLeavesNoRealize ==
    AllInline => pc # "error" /\ (Done => NoNodeOf(DOMAIN env \ outputs))

\* C16, for pure functions: scheduling a pipeline in which every function
\* that is not an output is compute_inline, has no update definition and no
\* extern definition, and has no specialization succeeds and gives a
\* statement with no Realize and no ProducerConsumer of any of them.
C16_PureInlineLeavesNoRealize ==
    AllInline /\ (\A fname \in DOMAIN env \ outputs : can_be_inlined(env[fname]))
        => pc # "error" /\ (Done => NoNodeOf(DOMAIN env \ outputs))

\* a pure f was inlined into the two stages of out that call it
C16_Witness ==
    /\ Done /\ AllInline
    /\ can_be_inlined(env["f"])
    /\ NumUpdates(env["out"]) = 1
    /\ \A d \in 1..2 : "f" \in env["out"].defs[d].calls
    /\ \E o \in Nodes : o.node.k = "Provide" /\ o.node.name = "out"

\* f, compute_inline with an update definition, was realized around the
\* Provide that calls it
C16_WitnessUpdate ==
    /\ Done /\ AllInline
    /\ ~is_pure(env["f"])
    /\ \E o \in Nodes : o.node.k = "Realize" /\ o.node.name = "f"

\* f, compute_inline and specialized, was refused
C16_WitnessSpecialized ==
    /\ err = "user: scheduled inline, so it must not have any specializations"
    /\ is_inline(env["f"].compute_level)

---------------------------------------------------------------------------
(* The order of the stages in a production *)

\* the Provides of a statement as [name, stage], in the order of the text
RECURSIVE ProvidesOf(_)
ProvidesOf(st) ==
    CASE st.k = "Provide" -> <<[name |-> st.name, stage |-> st.site[1].n.s]>>
      [] st.k \in {"For", "Let", "Realize", "PC"} -> ProvidesOf(st.body)
      [] st.k = "If" -> ProvidesOf(st.body) \o ProvidesOf(st.els)
      [] st.k = "Block" -> ProvidesOf(st.first) \o ProvidesOf(st.rest)
      [] OTHER -> <<>>

\* the productions of a statement: for every node ProducerConsumer(F, true,
\* body), F and the Provides of body
RECURSIVE Productions(_)
Productions(st) ==
    CASE st.k = "PC" ->
            (IF st.prod THEN {[name |-> st.name, provides |-> ProvidesOf(st.body)]} ELSE {})
                \cup Productions(st.body)
      [] st.k \in {"For", "Let", "Realize"} -> Productions(st.body)
      [] st.k = "If" -> Productions(st.body) \cup Productions(st.els)
      [] st.k = "Block" -> Productions(st.first) \cup Productions(st.rest)
      [] OTHER -> {}

\* in the production, a Provide of a stage of the function comes after a
\* Provide of every earlier stage of it
Ascending(pr) ==
    \A p \in 1..Len(pr.provides) :
        pr.provides[p].name = pr.name =>
            \A stage \in 0..(pr.provides[p].stage - 1) :
                \E q \in 1..(p - 1) :
                    pr.provides[q] = [name |-> pr.name, stage |-> stage]

\* the names of the ProducerConsumer nodes on top of st, outermost first, and
\* what they enclose
RECURSIVE Markers(_, _)
Markers(st, is_producer) ==
    IF st.k = "PC" /\ st.prod = is_producer
    THEN <<st.name>> \o Markers(st.body, is_producer) ELSE <<>>
RECURSIVE UnderMarkers(_, _)
UnderMarkers(st, is_producer) ==
    IF st.k = "PC" /\ st.prod = is_producer THEN UnderMarkers(st.body, is_producer) ELSE st

\* every producer node is the first half of a Block whose second half is
\* the consumer node of the same functions
RECURSIVE ProducerThenConsumer(_)
ProducerThenConsumer(st) ==
    CASE st.k = "Block" ->
            IF st.first.k = "PC" /\ st.first.prod
            THEN /\ Markers(st.first, TRUE) = Markers(st.rest, FALSE)
                 /\ ProducerThenConsumer(UnderMarkers(st.first, TRUE))
                 /\ ProducerThenConsumer(UnderMarkers(st.rest, FALSE))
            ELSE ProducerThenConsumer(st.first) /\ ProducerThenConsumer(st.rest)
      [] st.k = "PC" -> FALSE
      [] st.k \in {"For", "Let", "Realize"} -> ProducerThenConsumer(st.body)
      [] st.k = "If" -> ProducerThenConsumer(st.body) /\ ProducerThenConsumer(st.els)
      [] OTHER -> TRUE

\* C17: in every production of a function, by either injector, no Provide
\* of a stage comes before the first Provide of an earlier stage of the
\* function, and every production stands before the consumer node of its
\* function.
C17_StagesAscend ==
    /\ \A pr \in Productions(s) : Ascending(pr)
    /\ ProducerThenConsumer(s)

\* the same for the productions of the single-function injector alone
C17_StagesAscendAlone ==
    /\ \A pr \in Productions(s) : InjectedAlone(pr.name) => Ascending(pr)
    /\ ProducerThenConsumer(s)

\* the group injector produced g, whose update is computed with a stage of f
\* and whose pure definition is not
C17_Witness ==
    /\ Done
    /\ \E q \in FusedPairs : q.func_1 = "f" /\ q.func_2 = "g" /\ q.stage_2 = 1
    /\ \E pr \in Productions(s) :
          /\ pr.name = "g"
          /\ \E p \in 1..Len(pr.provides) : pr.provides[p] = [name |-> "g", stage |-> 0]
          /\ \E p \in 1..Len(pr.provides) : pr.provides[p] = [name |-> "g", stage |-> 1]

---------------------------------------------------------------------------
(* The legal sites and the loops around the uses *)

\* the stacks of sites, outermost first, around the uses of f in st
RECURSIVE UseStacks(_, _, _)
UseStacks(f, st, sites) ==
    CASE st.k = "For" -> UseStacks(f, st.body, Append(sites, SiteOfLoop(st)))
      [] st.k \in {"Let", "Realize", "PC"} -> UseStacks(f, st.body, sites)
      [] st.k = "If" ->
            (IF f \in ExprCalls(st.cond) THEN {sites} ELSE {})
                \cup UseStacks(f, st.body, sites) \cup UseStacks(f, st.els, sites)
      [] st.k = "Block" -> UseStacks(f, st.first, sites) \cup UseStacks(f, st.rest, sites)
      [] st.k = "Provide" -> IF f \in st.calls THEN {sites} ELSE {}
      [] OTHER -> {}

\* the stacks agree, by LoopLevel::match, on their first n sites
AgreeUpTo(stacks, n) ==
    \A a \in stacks : \A b \in stacks :
        /\ n <= Len(a) /\ n <= Len(b)
        /\ \A i \in 1..n : match_level(a[i].loop_level, b[i].loop_level)

\* the length of the longest common prefix of the stacks
CommonPrefixLen(stacks) ==
    LET longest == CHOOSE a \in stacks : \A b \in stacks : Len(b) <= Len(a)
    IN CHOOSE n \in 0..Len(longest) :
          /\ AgreeUpTo(stacks, n)
          /\ \A m \in (n + 1)..Len(longest) : ~AgreeUpTo(stacks, m)

\* allowed is the longest common prefix of the stacks
IsCommonPrefix(allowed, stacks) ==
    /\ Len(allowed) = CommonPrefixLen(stacks)
    /\ \A a \in stacks : \A i \in 1..Len(allowed) :
          match_level(allowed[i].loop_level, a[i].loop_level)

\* every allowed site is the site of a loop around every use
EnclosesEveryUse(allowed, stacks) ==
    \A i \in 1..Len(allowed) : \A a \in stacks :
        \E j \in 1..Len(a) : match_level(allowed[i].loop_level, a[j].loop_level)

Members == {Group[j] : j \in 1..Len(Group)}

\* C18: the sites_allowed that ComputeLegalSchedules leaves for a function
\* used in the statement are the longest common prefix, outermost first and
\* compared with LoopLevel::match, of the stacks of loops around its uses,
\* and each of them is the site of a loop around every use.
C18_AllowedIsCommonPrefix ==
    pc = "validate" => \A fname \in Members :
        UseStacks(fname, s, <<>>) # {} =>
            /\ IsCommonPrefix(sites_allowed(fname, s), UseStacks(fname, s, <<>>))
            /\ EnclosesEveryUse(sites_allowed(fname, s), UseStacks(fname, s, <<>>))

\* the second half alone
C18_AllowedEnclosesEveryUse ==
    pc = "validate" => \A fname \in Members :
        EnclosesEveryUse(sites_allowed(fname, s), UseStacks(fname, s, <<>>))

\* the update of out is reordered and f is used by both stages of out: the
\* sites left are those of the last use, more than the common prefix
C18_Witness ==
    /\ pc = "validate" /\ Group = <<"f">>
    /\ Cardinality(UseStacks("f", s, <<>>)) = 2
    /\ Len(sites_allowed("f", s)) > CommonPrefixLen(UseStacks("f", s, <<>>))

\* what follows: a schedule accepted against those sites whose store level
\* is inside its compute level around one of the uses
C18_WitnessAccepted ==
    /\ pc \in {"error", "done"} /\ gi = 1 /\ Group = <<"f">>
    /\ env["f"].store_level = Level("out", "x")
    /\ env["f"].compute_level = Level("out", "y")
    /\ Len(env["out"].defs) = 2 /\ env["out"].defs[2].dims[1].var = "y"
    /\ err # "user: computed at an invalid location"

---------------------------------------------------------------------------
(* The nesting of the Realize nodes of a fused group *)

IsRealizeOf(node, fname) == node.k = "Realize" /\ node.name = fname
RealizedIn(fname) == \E o \in Nodes : IsRealizeOf(o.node, fname)
InsideRealizeOf(o, fname) == \E k \in 1..Len(o.anc) : IsRealizeOf(o.anc[k], fname)

\* the pairs [inner, outer] of members of one group, both with a Realize
\* node, such that every Realize of inner must be inside a Realize of outer
Nested(inner, outer) ==
    RealizedIn(inner) /\ RealizedIn(outer)
        => \A o \in Nodes : IsRealizeOf(o.node, inner) => InsideRealizeOf(o, outer)

\* C19, as stated: the Realize of an earlier member of a fused group is
\* inside the Realize of every later member of the group, g0 innermost.
C19_EarlierInnermost ==
    \A i \in 1..Len(fused_groups) :
        \A a \in 1..Len(fused_groups[i]) : \A b \in (a + 1)..Len(fused_groups[i]) :
            Nested(fused_groups[i][a], fused_groups[i][b])

\* C19, amended: the Realize of a later member of a fused group is inside
\* the Realize of every earlier member of the group, g0 outermost, and no
\* Realize of an earlier member is inside one of a later member.
C19_EarlierOutermost ==
    \A i \in 1..Len(fused_groups) :
        \A a \in 1..Len(fused_groups[i]) : \A b \in (a + 1)..Len(fused_groups[i]) :
            /\ Nested(fused_groups[i][b], fused_groups[i][a])
            /\ \A o \in Nodes : IsRealizeOf(o.node, fused_groups[i][a])
                                    => ~InsideRealizeOf(o, fused_groups[i][b])

\* the group f, g injected with a Realize for each
C19_Witness ==
    /\ Done /\ <<"f", "g">> \in {fused_groups[i] : i \in 1..Len(fused_groups)}
    /\ RealizedIn("f") /\ RealizedIn("g")

---------------------------------------------------------------------------
(* The order in which schedule_functions takes the fused groups *)

\* the group of index k has been inlined or injected into s: an inlined
\* function has no call left, an injected one has its producer node
Processed(k) ==
    \A j \in 1..Len(fused_groups[k]) :
        LET fname == fused_groups[k][j]
        IN IF Len(fused_groups[k]) = 1 /\ relevant_fused_pair(env, env[fname]) = 0
              /\ can_be_inlined(env[fname]) /\ is_inline(env[fname].compute_level)
           THEN ~function_is_used_in_stmt(fname, s)
           ELSE \E o \in Nodes : o.node.k = "PC" /\ o.node.prod /\ o.node.name = fname

\* nothing of the group of index k is in s
Untouched(k) ==
    \A j \in 1..Len(fused_groups[k]) : \A o \in Nodes :
        o.node.k \in {"PC", "Realize", "Provide"} => o.node.name # fused_groups[k][j]

\* C20: schedule_functions takes fused_groups from last to first: when a
\* group is validated and injected, every group after it has been inlined or
\* injected into the skeleton and no group before it has; the members of the
\* group are validated against the skeleton that the group is then injected
\* into; and at the end every group has been taken.
C20_GroupsLastToFirst ==
    /\ pc \in {"validate", "inject"} =>
          /\ gi \in 1..Len(fused_groups)
          /\ \A k \in (gi + 1)..Len(fused_groups) : Processed(k)
          /\ \A k \in 1..gi : Untouched(k)
    /\ pc = "inject" =>
          \A j \in 1..Len(Group) : validate_schedule(env[Group[j]], s, Group[j] \in outputs) = ""
    /\ pc \in {"finish", "done"} => \A k \in 1..Len(fused_groups) : Processed(k)

\* the first group is about to be injected into a skeleton that holds the
\* production of the last one, which uses it
C20_Witness ==
    /\ pc = "inject" /\ gi = 1 /\ Len(fused_groups) = 2
    /\ Processed(2) /\ ~IsInlined
    /\ \E j \in 1..Len(Group) : function_is_used_in_stmt(Group[j], s)

C20_WitnessDone ==
    Done /\ \A k \in 1..Len(fused_groups) : Processed(k) /\ ~Untouched(k)

---------------------------------------------------------------------------
(* The injector schedule_functions gives a group to *)

\* a stage of the function has a fused pair whose child is in env
FusedStages(fn) ==
    {d \in 1..Len(fn.defs) : \E q \in PairsOfDef(fn.defs[d]) : q.func_2 \in DOMAIN env}

\* one member, none of whose stages has such a pair
AloneUnfused == Len(Group) = 1 /\ FusedStages(env[Group[1]]) = {}

\* one member, whose pure definition has no such pair
AlonePureUnfused == Len(Group) = 1 /\ 1 \notin FusedStages(env[Group[1]])

Inlinable == can_be_inlined(env[Group[1]]) /\ is_inline(env[Group[1]].compute_level)

\* C21: a group is inlined or given to the single-function injector only if
\* it has one member, no stage of which has a fused pair whose child is in
\* env, and every other group is given to the fused-group injector; a group
\* of the first kind is inlined exactly when its function can be inlined and
\* its compute level is inline.
C21_InjectorOfGroup ==
    [][/\ (InlineFunction \/ InjectOne) => AloneUnfused
       /\ InjectGroup => ~AloneUnfused
       /\ InlineFunction => Inlinable
       /\ InjectOne => ~Inlinable]_vars

\* the same with the fused pairs of the pure definition alone
C21_InjectorOfGroupPure ==
    [][/\ (InlineFunction \/ InjectOne) => AlonePureUnfused
       /\ InjectGroup => ~AlonePureUnfused
       /\ InlineFunction => Inlinable
       /\ InjectOne => ~Inlinable]_vars

\* the single-function injector has produced f, whose update 0 has a fused pair
C21_Witness ==
    /\ gi = 0 /\ pc \in {"finish", "done"} /\ InjectedAlone("f")
    /\ FusedStages(env["f"]) = {2}
    /\ \E o \in Nodes : o.node.k = "Provide" /\ o.node.name = "f" /\ o.node.site[1].n.s = 2

---------------------------------------------------------------------------
(* The two found flags during a traversal *)

\* the statements a traversal of st visits
RECURSIVE SubStmts(_)
SubStmts(st) ==
    {st} \cup
    CASE st.k \in {"For", "Let", "Realize", "PC"} -> SubStmts(st.body)
      [] st.k = "If" -> SubStmts(st.body) \cup SubStmts(st.els)
      [] st.k = "Block" -> SubStmts(st.first) \cup SubStmts(st.rest)
      [] OTHER -> {}

\* the flags a visit may start from: found_store_level only with
\* found_compute_level
FlagsInOrder == {st \in [fc : BOOLEAN, fs : BOOLEAN, err : {""}] : st.fs => st.fc}

\* the injector schedule_functions runs on the group at hand, from flags st
\* on the statement n
Injector(st, n) ==
    IF IsSingle
    THEN InjectRealization(env, env[Group[1]], IsOutputList[1], st, n)
    ELSE InjectGroupRealization(env, Group, IsOutputList, st, n)

\* the loop matches the store level and not the compute level of the group
StoreOnlyAt(name) ==
    IF IsSingle
    THEN AtStoreLevel(env, env[Group[1]], name) /\ ~AtComputeLevel(env, env[Group[1]], name)
    ELSE match(env[Group[1]].store_level, name) /\ ~match(env[Group[1]].compute_level, name)

\* C22: whatever statement of the skeleton an injector visits, from flags
\* with found_store_level only if found_compute_level, it leaves flags of
\* that kind; at a loop that matches the store level with the compute level
\* still not found it fails an internal assertion; and the flags the driver
\* reads after the traversal are of that kind.
C22_StoreFoundAfterCompute ==
    /\ found.fs => found.fc
    /\ pc = "inject" /\ ~IsInlined =>
          \A n \in SubStmts(s) : \A st \in FlagsInOrder :
              /\ Injector(st, n).err = "" => (Injector(st, n).fs => Injector(st, n).fc)
              /\ (/\ n.k = "For" /\ StoreOnlyAt(n.name)
                  /\ Injector(st, PeelLets(n.body).body).err = ""
                  /\ ~Injector(st, PeelLets(n.body).body).fc)
                     => Injector(st, n).err \notin {""} \cup ValidateErrors

\* a traversal that found the store level at a loop outside the compute level
C22_Witness ==
    /\ found.fs /\ found.fc /\ pc \in {"validate", "finish"}
    /\ \E fname \in DOMAIN env :
          /\ Injected(fname) /\ fname \notin outputs
          /\ ~match_level(env[fname].store_level, env[fname].compute_level)

\* a traversal that failed the assertion
C22_WitnessAsserted ==
    pc = "error" /\ err = "internal: compute level not found within the store level"

---------------------------------------------------------------------------
(* The assertion of schedule_functions on the two found flags *)

\* the user errors an injector raises
InjectErrors == {"user: the parent function of the fused group is not used"}

\* C23: for a group that has passed validate_fused_groups_schedule and
\* validate_schedule and is not inlined, the injector ends with
\* found_store_level and found_compute_level both true and no internal
\* assertion fails, whatever loops the compute and store levels name.
C23_BothLevelsFound ==
    [][(InjectOne \/ InjectGroup) =>
          \/ pc' = "error" /\ err' \in InjectErrors
          \/ pc' # "error" /\ found'.fs /\ found'.fc]_vars

\* h, called by the stage g.s0 that is fused into f.s0 at x, is computed and
\* stored at the loop of g over x; its schedule is accepted and
\* InjectRealization is run on it
C23_Witness ==
    /\ "h" \in DOMAIN env /\ gi = 1 /\ Group = <<"h">> /\ pc = "error"
    /\ env["h"].compute_level = Level("g", "x") /\ env["h"].store_level = Level("g", "x")
    /\ err = "internal: found_store_level && found_compute_level"

\* the same with h at the loop of f over x: both levels are found
C23_WitnessFound ==
    /\ "h" \in DOMAIN env /\ gi = 0 /\ pc = "finish"
    /\ env["h"].compute_level = Level("f", "x") /\ found.fs /\ found.fc

---------------------------------------------------------------------------
(* is_the_right_level on the loops of the skeleton *)

\* the loops of the statement whose function and stage are in env
LoopNames ==
    {o.node.name : o \in {o \in Nodes : o.node.k = "For"}}

\* the place of a var in the dims of a stage, innermost first
PlaceOf(def, v) == CHOOSE j \in 1..Len(def.dims) : def.dims[j].var = v

\* the stage of the loop is fused, at the var w of its fuse_level
FusedStageOf(name) ==
    /\ name # root_var
    /\ ~is_inline(DefOf(env[name.f], name.s).fuse_level)
    /\ ~is_root(DefOf(env[name.f], name.s).fuse_level)

\* C24: is_the_right_level is true of the loop over root and of every loop
\* of a stage whose fuse_level is inline or root; of a loop over var of a
\* stage fused at w it is true iff var comes strictly before w in the dims
\* of the stage, innermost first, so it is false of the fused loop over w
\* and of every loop outside it.
C24_RightLevelIsStrictlyInner ==
    \A name \in LoopNames :
        /\ ~FusedStageOf(name) => is_the_right_level(env, name)
        /\ FusedStageOf(name) =>
              LET def == DefOf(env[name.f], name.s)
              IN /\ is_the_right_level(env, name)
                      <=> PlaceOf(def, name.v) < PlaceOf(def, def.fuse_level.v)
                 /\ \A j \in PlaceOf(def, def.fuse_level.v)..Len(def.dims) :
                        name.v = def.dims[j].var => ~is_the_right_level(env, name)

\* a loop strictly inside the fused loop of its stage, the fused loop itself
\* and the loop over root are all in the statement
C24_Witness ==
    /\ \E name \in LoopNames : FusedStageOf(name) /\ is_the_right_level(env, name)
    /\ \E name \in LoopNames :
          /\ FusedStageOf(name) /\ name.v = DefOf(env[name.f], name.s).fuse_level.v
          /\ ~is_the_right_level(env, name)
    /\ s.k = "For" /\ s.name = root_var /\ is_the_right_level(env, s.name)

---------------------------------------------------------------------------
(* Let-hoisting and predicate-hoisting in the containers vector            *)

\* the definition the nest is built from, and the containers it is built of
NestDef == DefOf(env["f"], 0)
Unsorted == UnsortedNest("f", 0, NestDef)
AfterLets == LetsSorted("f", 0, NestDef)
AfterPreds == PredicatesSorted("f", 0, NestDef)

\* the place of the container c in the vector nest
PlaceIn(nest, c) == CHOOSE i \in 1..Len(nest) : nest[i] = c

\* the Let containers, and for a container the ones the vector has before it
LetPlaces == (Len(NestDef.dims) + 1)..(Len(NestDef.dims) + Len(NestDef.lets))
EarlierThan(i) == {Unsorted[j] : j \in 1..(i - 1)}

\* of the containers cs, the one the vector nest has innermost
InnermostOf(nest, cs) ==
    CHOOSE c \in cs : \A d \in cs : PlaceIn(nest, d) <= PlaceIn(nest, c)

\* the container c reads the name n
ContainerReads(c, n) == c.type # "For" /\ expr_uses_var(c.value, n)

\* the let was stopped by the container outside it, or by none
StoppedBy(nest, i, stops(_)) ==
    LET l == Unsorted[i]
        outside == {c \in EarlierThan(i) : PlaceIn(nest, c) < PlaceIn(nest, l)}
    IN outside # {} => stops(InnermostOf(nest, outside))

\* the containers the let went past
Passed(nest, i) ==
    LET l == Unsorted[i]
    IN {c \in EarlierThan(i) : PlaceIn(nest, c) > PlaceIn(nest, l)}

(* C25, as stated: each Let container after the base dims goes outward past
   the containers that do not read the name of the let, and stops at the first
   container outside it that does read it. *)
C25_LetStopsAtReader ==
    pc = "built" => \A i \in LetPlaces :
        LET l == Unsorted[i]
        IN /\ \A c \in Passed(AfterLets, i) : ~ContainerReads(c, l.name)
           /\ StoppedBy(AfterLets, i, LAMBDA c : ContainerReads(c, l.name))

(* C25, as the code has it: each Let container after the base dims goes
   outward past the containers whose name its value does not use, and stops
   at the first container outside it whose name its value uses; with none, it
   ends outermost of the containers that were outside it. *)
C25_LetStopsAtUsedName ==
    pc = "built" => \A i \in LetPlaces :
        LET l == Unsorted[i]
        IN /\ \A c \in Passed(AfterLets, i) : ~expr_uses_var(l.value, c.name)
           /\ StoppedBy(AfterLets, i, LAMBDA c : expr_uses_var(l.value, c.name))

\* a let that went past a loop and another let and stopped inside the loop
\* whose var its value uses, which does not read the let
C25_Witness ==
    /\ pc = "built"
    /\ \E i \in LetPlaces :
          LET l == Unsorted[i]
              outside == {c \in EarlierThan(i) :
                            PlaceIn(AfterLets, c) < PlaceIn(AfterLets, l)}
          IN /\ \E c \in Passed(AfterLets, i) : c.type = "For"
             /\ \E c \in Passed(AfterLets, i) : c.type = "Let"
             /\ outside # {}
             /\ InnermostOf(AfterLets, outside).type = "For"

\* the If containers, and the For and Let containers of the nest
PredPlaces ==
    (Len(NestDef.dims) + Len(NestDef.lets) + 1)..Len(Unsorted)
Binders == {Unsorted[j] : j \in 1..(Len(NestDef.dims) + Len(NestDef.lets))}

\* the container b ends outside the container c
Outside(b, c) == PlaceIn(AfterPreds, b) < PlaceIn(AfterPreds, c)

\* the For and Let containers whose name the condition of c uses
UsedBy(c) == {b \in Binders : expr_uses_var(c.value, b.name)}

\* an If container with an impure call stays inside every For and every Let
ImpureStays ==
    \A i \in PredPlaces :
        contains_impure_call(Unsorted[i].value) =>
            \A b \in Binders : Outside(b, Unsorted[i])

(* C26, as stated: an If container whose condition has an impure call stays
   inside every For and every Let container of the nest, and an If container
   with a pure condition ends outside every container whose name its
   condition does not use. *)
C26_PurePastEveryUnused ==
    pc = "built" =>
        /\ ImpureStays
        /\ \A i \in PredPlaces :
              ~contains_impure_call(Unsorted[i].value) =>
                  \A b \in Binders \ UsedBy(Unsorted[i]) : ~Outside(b, Unsorted[i])

(* C26, as the code has it: an If container whose condition has an impure
   call stays inside every For and every Let container of the nest, and an If
   container with a pure condition goes outward past the containers outside
   it up to the first one whose name its condition uses: it ends inside that
   one and every container outside that one, and outside the others. *)
C26_PureUpToFirstUsed ==
    pc = "built" =>
        /\ ImpureStays
        /\ \A i \in PredPlaces :
              ~contains_impure_call(Unsorted[i].value) =>
                  \A b \in Binders :
                      Outside(b, Unsorted[i]) <=>
                          \E u \in UsedBy(Unsorted[i]) :
                              PlaceIn(AfterLets, b) <= PlaceIn(AfterLets, u)

\* an If with an impure call that uses no name of the nest and stays
\* innermost, and a pure If that stopped inside the loop it uses with a loop
\* it does not use outside that one
C26_Witness ==
    /\ pc = "built"
    /\ \E i \in PredPlaces :
          /\ contains_impure_call(Unsorted[i].value)
          /\ UsedBy(Unsorted[i]) = {}
          /\ Binders # {}
    /\ \E i \in PredPlaces :
          /\ ~contains_impure_call(Unsorted[i].value)
          /\ \E b \in Binders : ~Outside(b, Unsorted[i])
          /\ \E b \in Binders \ UsedBy(Unsorted[i]) : Outside(b, Unsorted[i])

\* the names the For and Let containers of the nest bind
BinderNames == {b.name : b \in Binders}

\* the names the LetStmt or the predicate guard o reads
ReadBy(o) ==
    IF o.node.k = "Let" THEN ExprVars(o.node.value) ELSE ExprVars(o.node.cond)

\* the names the Fors and LetStmts around o bind
BoundAround(o) ==
    {o.anc[i].name : i \in {j \in 1..Len(o.anc) : o.anc[j].k \in {"For", "Let"}}}

\* the loops around o, outermost first
RECURSIVE LoopsAround(_, _)
LoopsAround(o, i) ==
    IF i > Len(o.anc) THEN <<>>
    ELSE (IF o.anc[i].k = "For" THEN <<o.anc[i].name>> ELSE <<>>) \o LoopsAround(o, i + 1)

(* C27: in the nest emitted, every LetStmt and every predicate guard is
   inside every For and every LetStmt of the nest whose name its value or
   condition reads, and the loops around each Provide are the dims of the
   stage, the last dim outermost, in the order the containers vector had them
   before the hoisting. *)
C27_UsesStayInsideBinders ==
    pc = "built" =>
        /\ \A o \in Nodes :
              (o.node.k = "Let" \/ (o.node.k = "If" /\ o.node.cond.k = "Pred")) =>
                  (ReadBy(o) \cap BinderNames) \subseteq BoundAround(o)
        /\ \A o \in Nodes : o.node.k = "Provide" =>
              LoopsAround(o, 1) =
                  [i \in 1..Len(NestDef.dims) |-> Unsorted[i].name]

\* a nest where a let and a pure predicate were both moved outward past a
\* container, each reading a name bound in the nest
C27_Witness ==
    /\ pc = "built"
    /\ \E i \in LetPlaces :
          /\ Passed(AfterLets, i) # {}
          /\ ExprVars(Unsorted[i].value) \cap BinderNames # {}
    /\ \E i \in PredPlaces :
          /\ ~contains_impure_call(Unsorted[i].value)
          /\ UsedBy(Unsorted[i]) # {}
          /\ \E b \in Binders : ~Outside(b, Unsorted[i])
    /\ \E o \in Nodes : o.node.k = "If" /\ o.node.cond.k = "Pred"
                          /\ ReadBy(o) \cap BinderNames # {}

---------------------------------------------------------------------------
(* The nests of the stages in the producer of a fused group                *)

\* the Provides a run of st executes, in order, one sequence for every choice
\* between a nest and the specialization that replaces it
RECURSIVE NestPaths(_)
NestPaths(st) ==
    CASE st.k = "Provide" -> {<<Stage(st.name, st.site[1].n.s)>>}
      [] st.k \in {"For", "Let", "Realize", "PC"} -> NestPaths(st.body)
      [] st.k = "If" ->
            NestPaths(st.body) \cup (IF defined(st.els) THEN NestPaths(st.els) ELSE {})
      [] st.k = "Block" ->
            {a \o b : a \in NestPaths(st.first), b \in NestPaths(st.rest)}
      [] OTHER -> {<<>>}

\* for every node ProducerConsumer(F, true, body): F and the paths of body
RECURSIVE Produced(_)
Produced(st) ==
    CASE st.k = "PC" ->
            (IF st.prod THEN {[name |-> st.name, paths |-> NestPaths(st.body)]} ELSE {})
                \cup Produced(st.body)
      [] st.k \in {"For", "Let", "Realize"} -> Produced(st.body)
      [] st.k = "If" -> Produced(st.body) \cup Produced(st.els)
      [] st.k = "Block" -> Produced(st.first) \cup Produced(st.rest)
      [] OTHER -> {}

\* how many times the path has the nest of the stage t
TimesOn(path, t) == Cardinality({i \in 1..Len(path) : path[i] = t})

StagesOf(fname) == {Stage(fname, i) : i \in 0..NumUpdates(env[fname])}

\* the members of the group of fname that the path produces
ProducedOn(path, fname) ==
    {m \in MembersWith(fname) : \E t \in StagesOf(m) : TimesOn(path, t) > 0}

(* C28: in the producer that the fused-group injector builds for a group, the
   loop nest of each stage of each member it produces appears exactly once on
   every run of the producer, whatever loops of the fused-into function run
   over the var of the fuse_level. *)
C28_EachNestOnce ==
    (Done /\ err = "") =>
        \A pr \in Produced(s) : ~InjectedAlone(pr.name) =>
            \A path \in pr.paths :
                /\ pr.name \in ProducedOn(path, pr.name)
                /\ \A m \in ProducedOn(path, pr.name) :
                      \A t \in StagesOf(m) : TimesOn(path, t) = 1

\* a group of two members whose producer has the nest of the child in a
\* loop of the parent, the parent having more than one stage
C28_Witness ==
    /\ Done /\ err = ""
    /\ \E pr \in Produced(s) :
          /\ ~InjectedAlone(pr.name)
          /\ NumUpdates(env[pr.name]) > 0
          /\ \E path \in pr.paths : Cardinality(ProducedOn(path, pr.name)) > 1
          /\ \E m \in MembersWith(pr.name) : \E i \in 0..NumUpdates(env[m]) :
                ~is_root(DefOf(env[m], i).fuse_level) /\ ~is_inline(DefOf(env[m], i).fuse_level)

---------------------------------------------------------------------------
(* The union of the bounds of a fused group                                *)

\* the internal assertions of replace_parent_bound_with_union_bound
UnionErrors ==
    {"internal: union bound: child bound not collected",
     "internal: union bound: parent bound not collected",
     "internal: union bound: fused var not in the parent's dims"}

\* the group is a chain: a member fused into a member that is fused itself,
\* at another dim
ChainAtTwoDims(group) ==
    \E j, k \in 1..Len(group) :
        \E a \in 0..NumUpdates(env[group[j]]), b \in 0..NumUpdates(env[group[k]]) :
            LET child == DefOf(env[group[j]], a)
                grandchild == DefOf(env[group[k]], b)
            IN /\ child.fuse_level.v \notin {"", RootVar}
               /\ grandchild.fuse_level.f = group[j]
               /\ grandchild.fuse_level.v \notin {"", RootVar}
               /\ grandchild.fuse_level.v # child.fuse_level.v
               /\ \E q \in PairsOfDef(child) : q.func_2 = group[k] /\ q.stage_2 = b

(* C29: for every fused group that validation accepted, a chain with a
   grandchild fused at another dim than its parent included, the injection of
   the group raises none of the internal assertions of
   replace_parent_bound_with_union_bound: every bound looked up is in the
   bounds map and the var of every pair is a dim of the parent. *)
C29_UnionBoundsFound ==
    [][pc = "inject" => err' \notin UnionErrors]_vars

\* a chain fused at two dims was accepted and is injected
C29_Witness ==
    pc = "inject" /\ err = "" /\ Len(Group) > 1 /\ ChainAtTwoDims(Group)

\* the names a node reads
ReadsOf(node) ==
    CASE node.k = "For" -> ExprVars(node.min) \cup ExprVars(node.extent)
      [] node.k = "Let" -> ExprVars(node.value)
      [] node.k = "If" -> ExprVars(node.cond)
      [] node.k = "Provide" -> UNION {ExprVars(node.site[k]) : k \in 1..Len(node.site)}
      [] OTHER -> {}

\* the nodes inside the loop o, and those inside the LetStmts that bind its
\* bounds
InsideLoop(o) ==
    {d \in Nodes : /\ Len(d.anc) > Len(o.anc)
                   /\ SubSeq(d.anc, 1, Len(o.anc)) = o.anc
                   /\ d.anc[Len(o.anc) + 1] = o.node}

\* the LetStmts around o that bind n
LetsAround(o, n) == {i \in 1..Len(o.anc) : o.anc[i].k = "Let" /\ o.anc[i].name = n}

\* the bounds the loop nest gives the loop of a pure var before any fusion
PreUnion(v, sfx) ==
    LET at == {i \in 1..3 : PureDimLets(v)[i].name = Suffixed(v, sfx)}
    IN PureDimLets(v)[CHOOSE i \in at : TRUE].value

(* C30: where the fused-group injector replaces the bounds of the parent by
   the union, the parent's loop over each such dim is named
   <parent>.s0.fused.<var>, its min and extent are the names
   <parent>.s0.fused.<var>.loop_min and .loop_extent that LetStmts around it
   bind, with .loop_max, to the union, no node inside the loop reads the old
   loop variable <parent>.s0.<var>, and the LetStmts of
   <parent>.s0.<var>.loop_min, .loop_max and .loop_extent are still around it
   with the bounds the nest was built with. *)
C30_ParentLoopRenamed ==
    \A parent \in GroupParents : \A dim \in DimsOf(parent, 0) :
        \A o \in LoopsOver(parent, 0, dim) :
            FusedOn(o, parent, dim) # {} =>
                LET old == LoopName(parent, 0, dim)
                IN /\ o.node.name = FusedName(old)
                   /\ o.node.min = Var(Suffixed(FusedName(old), "loop_min"))
                   /\ o.node.extent = Var(Suffixed(FusedName(old), "loop_extent"))
                   /\ \A sfx \in {"loop_min", "loop_max", "loop_extent"} :
                         /\ Cardinality(LetsAround(o, Suffixed(FusedName(old), sfx))) = 1
                         /\ Cardinality(LetsAround(o, Suffixed(old, sfx))) = 1
                         /\ LetValue(o, Suffixed(old, sfx)) = PreUnion(old, sfx)
                   /\ IsUnionOf(o, {Stage(parent, 0)} \cup FusedOn(o, parent, dim), dim)
                   /\ \A d \in InsideLoop(o) : old \notin ReadsOf(d.node)

\* a renamed loop of a parent with, inside it, the Provide of the parent and
\* the bounds of a child loop, both reading the new name
C30_Witness ==
    /\ Done /\ err = ""
    /\ \E parent \in GroupParents : \E dim \in DimsOf(parent, 0) :
          \E o \in LoopsOver(parent, 0, dim) :
              /\ FusedOn(o, parent, dim) # {}
              /\ \E d \in InsideLoop(o) :
                    d.node.k = "Provide" /\ d.node.name = parent
                        /\ FusedName(LoopName(parent, 0, dim)) \in ReadsOf(d.node)
              /\ \E d \in InsideLoop(o) :
                    d.node.k = "Let" /\ d.node.name.f # parent
                        /\ d.node.value = Var(FusedName(LoopName(parent, 0, dim)))
=============================================================================
